---- MODULE Spec2Model ----
(***************************************************************************)
(* A model of the pytm-mcpserver threat-modelling tools: the rule-based    *)
(* classifier (core_utils.py), the diagram synthesizer and code generator  *)
(* (core_utils.py, pytm_generator.py, threatmodel_server.py), the tool     *)
(* dispatch of threatmodel_server.py, the out-of-process collaborators of   *)
(* pytm_generator.py and the module-level caches.                           *)
(*                                                                         *)
(* Text is modelled as TLA+ strings where the code inspects characters     *)
(* (substring search, lower-casing, slugs, string comparison) and as       *)
(* sequences of statement records where the code only appends lines.       *)
(***************************************************************************)
EXTENDS Integers, Sequences, FiniteSets, TLC

VARIABLES
    description,   \* classifier: the description passed to extract_components
    hashOrder,     \* classifier: iteration order of a set of str in this process
    components,    \* classifier: the component list returned
    boundaries,    \* classifier: the boundary list returned
    clsPc,         \* classifier: "off" | "start" | "extracted"
    clsPrev,       \* classifier: what the previous call on the description returned
    sComponents,   \* simple generators: the component dictionaries passed in
    sBoundaries,   \* simple generators: the boundary names passed in
    simpleDot,     \* simple generators: what generate_simple_dot returned
    simpleCode,    \* simple generators: what generate_pytm_code returned
    sPc,           \* simple generators: "off" | "inputs"
    caches,        \* cache: _code_cache, _diagram_cache, _threat_cache (name -> dict)
    locks,         \* cache: the holder of each key's exclusive lock, or NoCaller
    produced,      \* cache: the values the producer returned, per key, in order
    callers,       \* cache: each concurrent getOrCreate call's position and result
    tComponents,   \* tool: the Component records built from the arguments
    tBoundaries,   \* tool: the TrustBoundary records built from the arguments
    tDataflows,    \* tool: the DataFlow records built from the arguments
    dotText,       \* tool: the graph text generated, NoText before
    pyCode,        \* tool: the script text generated, NoText before
    toolPc,        \* tool: position in the handler
    toolName,      \* tool: the name passed to call_tool
    tArgs,         \* tool: the arguments passed to call_tool
    graphviz,      \* tool: GRAPHVIZ_AVAILABLE
    files,         \* tool: the files written so far, in order
    savedFiles,    \* tool: saved_files of the handler
    warnings,      \* tool: the warnings printed to stderr
    toolResult,    \* tool: what call_tool returned, NoResult before
    xOp,           \* exec: the function that runs the child process
    xCmd,          \* exec: python_cmd of execute_pytm_fast
    xDfd,          \* exec: whether args contains --dfd
    xPc,           \* exec: position in the function
    xChild,        \* exec: the child process
    xWaited,       \* exec: time units spent awaiting the child
    xTemp,         \* exec: the temporary directory
    xAttempts,     \* exec: the removal attempts of the finally clause, TRUE for one that succeeded
    xResult,       \* exec: what the function returned or raised
    dArgs,         \* dfd tool: the arguments of generate_data_flow_diagram
    dPc,           \* dfd tool: position in the handler
    dDirs,         \* dfd tool: the directories and the handler's work_dir, cleanup_dir
    dResult        \* dfd tool: the text returned, or the exception on its way out

clsVars == <<description, hashOrder, components, boundaries, clsPc, clsPrev>>
simpleVars == <<sComponents, sBoundaries, simpleDot, simpleCode, sPc>>
cacheVars == <<caches, locks, produced, callers>>

entityVars == <<tComponents, tBoundaries, tDataflows>>
textVars == <<dotText, pyCode>>
callVars == <<toolName, tArgs, graphviz>>
ioVars == <<files, savedFiles, warnings>>
toolVars == <<entityVars, textVars, toolPc, callVars, ioVars, toolResult>>

execVars == <<xOp, xCmd, xDfd, xPc, xChild, xWaited, xTemp, xAttempts, xResult>>
dfdVars == <<dArgs, dPc, dDirs, dResult>>
vars == <<clsVars, cacheVars, toolVars, execVars, simpleVars, dfdVars>>

(***************************************************************************)
(* Bounds of the model.                                                    *)
(***************************************************************************)
MaxWords == 2
MaxFlows == 3

(***************************************************************************)
(* Strings, character by character.                                        *)
(***************************************************************************)
UpperAlphabet == "ABCDEFGHIJKLMNOPQRSTUVWXYZ"
LowerAlphabet == "abcdefghijklmnopqrstuvwxyz"
Digits == "0123456789"

CharAt(s, i) == SubSeq(s, i, i)

CharsOf(s) == {CharAt(s, i) : i \in 1..Len(s)}

\* str.lower() on one character (ASCII letters; other characters are kept)
LowerOf ==
    [c \in CharsOf(UpperAlphabet) |->
        CharAt(LowerAlphabet, CHOOSE i \in 1..Len(UpperAlphabet) : CharAt(UpperAlphabet, i) = c)]

LowerChar(c) == IF c \in DOMAIN LowerOf THEN LowerOf[c] ELSE c

RECURSIVE Lower(_)
Lower(s) ==
    IF Len(s) = 0 THEN ""
    ELSE LowerChar(CharAt(s, 1)) \o Lower(SubSeq(s, 2, Len(s)))

\* re.search of a literal: the literal occurs somewhere in the text
ContainsWholeWord(s, p) ==
    \E i \in 1..(Len(s) - Len(p) + 1) :
        /\ SubSeq(s, i, i + Len(p) - 1) = p
        /\ (i = 1 \/ CharAt(s, i - 1) = " ")
        /\ (i + Len(p) - 1 = Len(s) \/ CharAt(s, i + Len(p)) = " ")

Contains(s, p) ==
    \E i \in 1..(Len(s) - Len(p) + 1) : SubSeq(s, i, i + Len(p) - 1) = p

\* re.search(pattern, text) for a pattern that is an alternation of literals
re_search(alts, text) == \E k \in 1..Len(alts) : Contains(text, alts[k])

(***************************************************************************)
(* core_utils.py: the rule table and extract_components.                   *)
(***************************************************************************)
Rule(alts, name, type, boundary) ==
    [alts |-> alts, name |-> name, type |-> type, boundary |-> boundary]

PATTERNS == <<
    Rule(<<"web", "frontend", "ui", "portal", "dashboard">>, "Web Frontend", "server", "Internet"),
    Rule(<<"api", "backend", "rest", "graphql", "service">>, "API Server", "server", "DMZ"),
    Rule(<<"database", "postgres", "mysql", "sql", "db">>, "Database", "datastore", "Internal"),
    Rule(<<"redis", "cache", "memcache">>, "Cache", "datastore", "Internal"),
    Rule(<<"storage", "s3", "blob", "file">>, "File Storage", "datastore", "Internal"),
    Rule(<<"user", "customer", "client">>, "User", "actor", "Internet"),
    Rule(<<"admin", "administrator">>, "Admin", "actor", "Internet"),
    Rule(<<"payment", "stripe", "paypal">>, "Payment Gateway", "external", "Internet"),
    Rule(<<"email", "smtp", "mail">>, "Email Service", "external", "Internet"),
    Rule(<<"auth", "oauth", "sso", "identity">>, "Auth Provider", "external", "Internet"),
    Rule(<<"mobile", "ios", "android", "app">>, "Mobile App", "actor", "Internet"),
    Rule(<<"microservice">>, "Microservice", "process", "Internal"),
    Rule(<<"queue", "kafka", "rabbitmq">>, "Message Queue", "datastore", "Internal"),
    Rule(<<"cdn", "cloudfront">>, "CDN", "external", "Internet") >>

Comp(name, type, boundary) == [name |-> name, type |-> type, boundary |-> boundary]

BoundaryNames == {"Internet", "DMZ", "Internal"}

\* the state of the loop of extract_components: the list, the boundary set, found
\* a table pass that puts each match in front of the earlier ones
RECURSIVE TablePassPrepend(_, _, _)
TablePassPrepend(desc_lower, k, acc) ==
    IF k > Len(PATTERNS) THEN acc
    ELSE LET r == PATTERNS[k] IN
         IF re_search(r.alts, desc_lower) /\ r.name \notin acc.found
         THEN TablePassPrepend(desc_lower, k + 1,
                  [components |-> <<Comp(r.name, r.type, r.boundary)>> \o acc.components,
                   boundaries |-> acc.boundaries \cup {r.boundary},
                   found      |-> acc.found \cup {r.name}])
         ELSE TablePassPrepend(desc_lower, k + 1, acc)

RECURSIVE TablePass(_, _, _)
TablePass(desc_lower, k, acc) ==
    IF k > Len(PATTERNS) THEN acc
    ELSE LET r == PATTERNS[k] IN
         IF re_search(r.alts, desc_lower) /\ r.name \notin acc.found
         THEN TablePass(desc_lower, k + 1,
                  [components |-> Append(acc.components, Comp(r.name, r.type, r.boundary)),
                   boundaries |-> acc.boundaries \cup {r.boundary},
                   found      |-> acc.found \cup {r.name}])
         ELSE TablePass(desc_lower, k + 1, acc)

HasType(comps, t) == \E i \in 1..Len(comps) : comps[i].type = t

DefaultActorNeverAdded(acc) == acc

\* the default actor appended whether or not an actor was matched
DefaultActorAlways(acc) ==
    [acc EXCEPT !.components = Append(@, Comp("User", "actor", "Internet"))]

DefaultActor(acc) ==
    IF ~HasType(acc.components, "actor")
    THEN [acc EXCEPT !.components = Append(@, Comp("User", "actor", "Internet"))]
    ELSE acc

\* a default server added without registering its boundary
DefaultServerUnregistered(acc) ==
    IF ~HasType(acc.components, "server")
    THEN [acc EXCEPT !.components = Append(@, Comp("Application", "server", "DMZ"))]
    ELSE acc

DefaultServer(acc) ==
    IF ~HasType(acc.components, "server")
    THEN [acc EXCEPT !.components = Append(@, Comp("Application", "server", "DMZ")),
                     !.boundaries = @ \cup {"DMZ"}]
    ELSE acc

\* list(a set of str): the elements in this process's iteration order
RECURSIVE ListOfSet(_, _)
ListOfSet(order, S) ==
    IF Len(order) = 0 THEN <<>>
    ELSE IF Head(order) \in S
         THEN <<Head(order)>> \o ListOfSet(Tail(order), S)
         ELSE ListOfSet(Tail(order), S)

extract_components(desc, order) ==
    LET acc0 == [components |-> <<>>, boundaries |-> {"Internet"}, found |-> {}]
        acc  == DefaultServer(DefaultActor(TablePass(Lower(desc), 1, acc0)))
    IN  [components |-> acc.components, boundaries |-> ListOfSet(order, acc.boundaries)]

(***************************************************************************)
(* The descriptions the classifier is run on: up to MaxWords words of a    *)
(* vocabulary joined by blanks, and the description of the end-to-end      *)
(* example.                                                                *)
(***************************************************************************)
Words == {"web", "application", "database", "Admin", "microservice",
          "payment", "and", "USER"}

EndToEndDescription == "web application with database and redis cache"

RECURSIVE Join(_)
Join(ws) ==
    IF Len(ws) = 0 THEN ""
    ELSE IF Len(ws) = 1 THEN ws[1]
    ELSE ws[1] \o " " \o Join(Tail(ws))

Descriptions ==
    {Join(ws) : ws \in UNION {[1..n -> Words] : n \in 0..MaxWords}}
        \cup {EndToEndDescription}

Permutation(S) ==
    {p \in [1..Cardinality(S) -> S] : \A i, j \in 1..Cardinality(S) : p[i] = p[j] => i = j}

SeqToSet(s) == {s[i] : i \in 1..Len(s)}

(***************************************************************************)
(* The classifier as a state machine.                                      *)
(***************************************************************************)
NoCall == [components |-> <<>>, boundaries |-> <<>>]

ExtractComponents ==
    /\ clsPc = "start"
    /\ LET r == extract_components(description, hashOrder) IN
         /\ components' = r.components
         /\ boundaries' = r.boundaries
    /\ clsPc' = "extracted"
    /\ UNCHANGED <<description, hashOrder, clsPrev>>
    /\ UNCHANGED <<cacheVars, toolVars, execVars, simpleVars, dfdVars>>

\* the caller keeps what it got and submits the same description again
CallAgain ==
    /\ clsPc = "extracted"
    /\ clsPrev' = [components |-> components, boundaries |-> boundaries]
    /\ clsPc' = "start"
    /\ UNCHANGED <<description, hashOrder, components, boundaries>>
    /\ UNCHANGED <<cacheVars, toolVars, execVars, simpleVars, dfdVars>>

\* between two calls the server process is started anew: str hashes are salted
\* per process, so a set of str is iterated in another order
Restart ==
    /\ clsPc = "start"
    /\ clsPrev # NoCall
    /\ hashOrder' \in Permutation(BoundaryNames) \ {hashOrder}
    /\ UNCHANGED <<description, components, boundaries, clsPc, clsPrev>>
    /\ UNCHANGED <<cacheVars, toolVars, execVars, simpleVars, dfdVars>>

ClsNext == ExtractComponents \/ CallAgain \/ Restart

(***************************************************************************)
(* The module-level caches of threatmodel_server.py and getOrCreate.       *)
(* The dictionaries are created empty at import; the code that reads and   *)
(* fills them is not among the files under src/, so getOrCreate follows    *)
(* sections 4.5 and 5 of the specification: the key is the first 100       *)
(* characters of the description, and the read-or-insert sequence runs     *)
(* under one exclusive lock per key.                                       *)
(***************************************************************************)
NumCallers == 3

Callers == 1..NumCallers
NoCaller == 0

CacheNames == {"_code_cache", "_diagram_cache", "_threat_cache"}

KeyLength == 100

Min(a, b) == IF a < b THEN a ELSE b

cache_key(desc) == SubSeq(desc, 1, Min(KeyLength, Len(desc)))

\* 100 characters shared by two longer descriptions, which differ after them
Prefix100 ==
    "aaaaaaaaaaaaaaaaaaaaaaaaaaaaaaaaaaaaaaaaaaaaaaaaaa" \o
    "aaaaaaaaaaaaaaaaaaaaaaaaaaaaaaaaaaaaaaaaaaaaaaaaaa"

CacheDescriptions == {Prefix100 \o " with database", Prefix100 \o " with cache"}

CacheKeys == {cache_key(d) : d \in CacheDescriptions}

Slots == CacheNames \X CacheKeys

\* _code_cache = {}, _diagram_cache = {}, _threat_cache = {}
EmptyCaches == [c \in CacheNames |-> << >>]

InCache(dict, k) == k \in DOMAIN dict

Put(dict, k, v) == [x \in (DOMAIN dict) \cup {k} |-> IF x = k THEN v ELSE dict[x]]

IdleCaller == [pc |-> "idle", cache |-> "", desc |-> "", value |-> "", result |-> ""]

SlotOf(p) == <<callers[p].cache, cache_key(callers[p].desc)>>

\* a request arrives: getOrCreate(key(desc), producer) on one of the caches;
\* each caller is one call, and the calls start and run in any order
CacheCall(p, c, d) ==
    /\ callers[p].pc = "idle"
    /\ callers' = [callers EXCEPT ![p] = [IdleCaller EXCEPT !.pc = "lock", !.cache = c, !.desc = d]]
    /\ UNCHANGED <<caches, locks, produced>>
    /\ UNCHANGED <<clsVars, toolVars, execVars, simpleVars, dfdVars>>

LockNotTaken(p) == locks' = locks

LockTaken(p) ==
    /\ locks[SlotOf(p)] = NoCaller
    /\ locks' = [locks EXCEPT ![SlotOf(p)] = p]

CacheLock(p) ==
    /\ callers[p].pc = "lock"
    /\ LockTaken(p)
    /\ callers' = [callers EXCEPT ![p].pc = "check"]
    /\ UNCHANGED <<caches, produced>>
    /\ UNCHANGED <<clsVars, toolVars, execVars, simpleVars, dfdVars>>

\* a hit that also drops the entry, as an expiring cache would
CacheHitEvicts(p) ==
    /\ callers[p].pc = "check"
    /\ InCache(caches[callers[p].cache], cache_key(callers[p].desc))
    /\ callers' = [callers EXCEPT ![p].pc = "done",
                                  ![p].result = caches[callers[p].cache][cache_key(callers[p].desc)]]
    /\ locks' = [locks EXCEPT ![SlotOf(p)] = IF @ = p THEN NoCaller ELSE @]
    /\ caches' = [caches EXCEPT ![callers[p].cache] = << >>]
    /\ UNCHANGED produced
    /\ UNCHANGED <<clsVars, toolVars, execVars, simpleVars, dfdVars>>

Release(p) ==
    locks' = [locks EXCEPT ![SlotOf(p)] = IF @ = p THEN NoCaller ELSE @]

\* the key is present: the stored value is returned, the producer is not run
CacheHit(p) ==
    /\ callers[p].pc = "check"
    /\ InCache(caches[callers[p].cache], cache_key(callers[p].desc))
    /\ callers' = [callers EXCEPT ![p].pc = "done",
                                  ![p].result = caches[callers[p].cache][cache_key(callers[p].desc)]]
    /\ Release(p)
    /\ UNCHANGED <<caches, produced>>
    /\ UNCHANGED <<clsVars, toolVars, execVars, simpleVars, dfdVars>>

CacheMiss(p) ==
    /\ callers[p].pc = "check"
    /\ ~InCache(caches[callers[p].cache], cache_key(callers[p].desc))
    /\ callers' = [callers EXCEPT ![p].pc = "produce"]
    /\ UNCHANGED <<caches, locks, produced>>
    /\ UNCHANGED <<clsVars, toolVars, execVars, simpleVars, dfdVars>>

\* the producer runs on the caller's description
CacheProduce(p) ==
    /\ callers[p].pc = "produce"
    /\ LET v == [of |-> callers[p].desc, run |-> Len(produced[SlotOf(p)]) + 1] IN
         /\ produced' = [produced EXCEPT ![SlotOf(p)] = Append(@, v)]
         /\ callers' = [callers EXCEPT ![p].pc = "insert", ![p].value = v]
    /\ UNCHANGED <<caches, locks>>
    /\ UNCHANGED <<clsVars, toolVars, execVars, simpleVars, dfdVars>>

CacheInsert(p) ==
    /\ callers[p].pc = "insert"
    /\ caches' = [caches EXCEPT ![callers[p].cache] =
                      Put(@, cache_key(callers[p].desc), callers[p].value)]
    /\ callers' = [callers EXCEPT ![p].pc = "done", ![p].result = callers[p].value]
    /\ Release(p)
    /\ UNCHANGED produced
    /\ UNCHANGED <<clsVars, toolVars, execVars, simpleVars, dfdVars>>

CacheNext ==
    \E p \in Callers :
        \/ \E c \in CacheNames, d \in CacheDescriptions : CacheCall(p, c, d)
        \/ CacheLock(p)
        \/ CacheHit(p)
        \/ CacheMiss(p)
        \/ CacheProduce(p)
        \/ CacheInsert(p)

(***************************************************************************)
(* threatmodel_server.py: the enumerations and the entity records.         *)
(***************************************************************************)
ComponentType == {"actor", "user", "admin", "service_account", "server", "api_gateway",
                  "microservice", "lambda", "container", "database", "cache", "queue",
                  "file_storage", "external", "load_balancer", "firewall", "process"}

Protocol == {"HTTPS", "HTTP", "gRPC", "WebSocket", "MQTT", "AMQP", "SQL",
             "Redis Protocol", "S3 API", "Custom"}

DataClassification == {"PUBLIC", "INTERNAL", "CONFIDENTIAL", "RESTRICTED", "TOP_SECRET"}

None == "<None>"
NoText == <<>>

\* Python truth of an optional str/int field: None, "" and 0 are false
Truthy(x) == x # None /\ x # ""

\* port: Optional[int] = None, and "if flow.port"
NoPort == -1
TruthyPort(x) == x # NoPort /\ x # 0

Component(name, type, boundary, desc, controls, metadata) ==
    [name |-> name, type |-> type, boundary |-> boundary, description |-> desc,
     security_controls |-> controls, metadata |-> metadata]

SecurityControl(name, enabled, config) ==
    [name |-> name, enabled |-> enabled, config |-> config]

TrustBoundary(name, type, level, desc, controls) ==
    [name |-> name, type |-> type, security_level |-> level, description |-> desc,
     controls |-> controls]

DataFlow(source, destination, protocol, data_type, classification, bidirectional, port, authentication, encryption, desc) ==
    [source |-> source, destination |-> destination, protocol |-> protocol,
     data_type |-> data_type, classification |-> classification,
     bidirectional |-> bidirectional, port |-> port, authentication |-> authentication,
     encryption |-> encryption, description |-> desc]

(***************************************************************************)
(* re.sub(r'[^\w]', '_', name.lower()): the identifier of a display name.  *)
(***************************************************************************)
WordChars == CharsOf(LowerAlphabet) \cup CharsOf(UpperAlphabet) \cup CharsOf(Digits) \cup {"_"}

IsWordChar(c) == c \in WordChars

RECURSIVE SubNonWord(_)
SubNonWord(s) ==
    IF Len(s) = 0 THEN ""
    ELSE (IF IsWordChar(CharAt(s, 1)) THEN CharAt(s, 1) ELSE "_")
             \o SubNonWord(SubSeq(s, 2, Len(s)))

Slug(name) == SubNonWord(Lower(name))

(***************************************************************************)
(* generate_advanced_dot: the graph text, one record per line.             *)
(***************************************************************************)
DotLine(kind, a, b, label, style) ==
    [kind |-> kind, a |-> a, b |-> b, label |-> label, style |-> style]

\* sorted(boundaries, key=security_level): stable, ascending
RECURSIVE InsertByLevel(_, _)
InsertByLevel(sorted, b) ==
    IF Len(sorted) = 0 THEN <<b>>
    ELSE IF sorted[Len(sorted)].security_level <= b.security_level
         THEN Append(sorted, b)
         ELSE Append(InsertByLevel(SubSeq(sorted, 1, Len(sorted) - 1), b),
                     sorted[Len(sorted)])

RECURSIVE SortedByLevel(_)
SortedByLevel(bs) ==
    IF Len(bs) = 0 THEN <<>>
    ELSE InsertByLevel(SortedByLevel(SubSeq(bs, 1, Len(bs) - 1)), bs[Len(bs)])

AdvancedShape(type) ==
    IF type \in {"actor", "user", "admin"} THEN <<"box", "rounded">>
    ELSE IF type \in {"database", "cache"} THEN <<"cylinder", "">>
    ELSE IF type = "external" THEN <<"box", "dashed">>
    ELSE <<"box", "">>

\* the node line carries label, shape and style only: no fillcolor attribute
AdvancedNode(comp) ==
    DotLine("node", Slug(comp.name), "", comp.name, AdvancedShape(comp.type))

RECURSIVE AdvancedNodes(_, _)
AdvancedNodes(comps, boundaryName) ==
    IF Len(comps) = 0 THEN <<>>
    ELSE (IF Head(comps).boundary = boundaryName THEN <<AdvancedNode(Head(comps))>> ELSE <<>>)
             \o AdvancedNodes(Tail(comps), boundaryName)

RECURSIVE AdvancedClusters(_, _, _)
AdvancedClusters(comps, sorted, i) ==
    IF i > Len(sorted) THEN <<>>
    ELSE <<DotLine("subgraph", ToString(i - 1), "", sorted[i].name, "")>>
             \o AdvancedNodes(comps, sorted[i].name)
             \o <<DotLine("end", "", "", "", "")>>
             \o AdvancedClusters(comps, sorted, i + 1)

\* every forward edge drawn solid, whatever the flow's encryption
AdvancedEdgeUnstyled(flow) ==
    <<DotLine("edge", Slug(flow.source), Slug(flow.destination), flow.data_type, "")>>
        \o (IF flow.bidirectional
            THEN <<DotLine("edge", Slug(flow.destination), Slug(flow.source), "Response", "dotted")>>
            ELSE <<>>)

AdvancedEdge(flow) ==
    <<DotLine("edge", Slug(flow.source), Slug(flow.destination), flow.data_type,
              IF Truthy(flow.encryption) THEN "" ELSE "dashed")>>
        \o (IF flow.bidirectional
            THEN <<DotLine("edge", Slug(flow.destination), Slug(flow.source), "Response", "dotted")>>
            ELSE <<>>)

RECURSIVE AdvancedEdges(_)
AdvancedEdges(flows) ==
    IF Len(flows) = 0 THEN <<>>
    ELSE AdvancedEdge(Head(flows)) \o AdvancedEdges(Tail(flows))

generate_advanced_dot(comps, bounds, flows) ==
    <<DotLine("digraph", "", "", "", "")>>
        \o AdvancedClusters(comps, SortedByLevel(bounds), 1)
        \o <<DotLine("comment", "", "", "Data flows", "")>>
        \o AdvancedEdges(flows)
        \o <<DotLine("close", "", "", "", "")>>

NodeIds(dot) == {dot[i].a : i \in {j \in 1..Len(dot) : dot[j].kind = "node"}}
EdgeLines(dot) == SelectSeq(dot, LAMBDA l : l.kind = "edge")

(***************************************************************************)
(* generate_advanced_pytm_code: the script text, one record per statement  *)
(* or comment line; var is the variable a statement assigns or sets.       *)
(***************************************************************************)
PyStmt(kind, var, a, b) == [kind |-> kind, var |-> var, a |-> a, b |-> b]

PyComment(a, b) == PyStmt("comment", "", a, b)

RECURSIVE MetadataComments(_)
MetadataComments(md) ==
    IF Len(md) = 0 THEN <<>>
    ELSE <<PyComment(Head(md)[1], Head(md)[2])>> \o MetadataComments(Tail(md))

PyHeader(system_name, desc, metadata) ==
    <<PyStmt("TM", "tm", system_name, desc)>>
        \o (IF Len(metadata) > 0
            THEN <<PyComment("Metadata", "")>> \o MetadataComments(metadata)
            ELSE <<>>)

PyBoundary(b) ==
    <<PyStmt("Boundary", Slug(b.name), b.name, "")>>
        \o (IF Truthy(b.description)
            THEN <<PyStmt("set", Slug(b.name), "description", b.description)>> ELSE <<>>)
        \o <<PyComment("Security Level", b.security_level)>>
        \o (IF Len(b.controls) > 0 THEN <<PyComment("Controls", b.controls)>> ELSE <<>>)

RECURSIVE PyBoundaries(_)
PyBoundaries(bs) ==
    IF Len(bs) = 0 THEN <<>> ELSE PyBoundary(Head(bs)) \o PyBoundaries(Tail(bs))

\* boundary_vars, comp_vars, data_objects: the keys of the dictionaries
NamesOf(seq) == {seq[i].name : i \in 1..Len(seq)}
DataTypesOf(flows) == {flows[i].data_type : i \in 1..Len(flows)}

DataVar(data_type) == Slug(data_type) \o "_data"

PyDataObject(flow) ==
    <<PyStmt("Data", DataVar(flow.data_type), flow.data_type, ""),
      PyStmt("set", DataVar(flow.data_type), "classification", flow.classification)>>
        \o (IF Lower(flow.data_type) \in {"user data", "personal data", "pii"}
            THEN <<PyStmt("set", DataVar(flow.data_type), "isPII", TRUE)>> ELSE <<>>)
        \o (IF Lower(flow.data_type) \in {"credentials", "password", "token", "key"}
            THEN <<PyStmt("set", DataVar(flow.data_type), "isCredentials", TRUE)>> ELSE <<>>)

\* a declaration for every flow, whether or not its data_type was seen before
RECURSIVE PyDataObjectsEvery(_, _)
PyDataObjectsEvery(flows, seen) ==
    IF Len(flows) = 0 THEN <<>>
    ELSE PyDataObject(Head(flows)) \o PyDataObjectsEvery(Tail(flows), seen)

RECURSIVE PyDataObjects(_, _)
PyDataObjects(flows, seen) ==
    IF Len(flows) = 0 THEN <<>>
    ELSE IF Head(flows).data_type \notin seen
         THEN PyDataObject(Head(flows))
                  \o PyDataObjects(Tail(flows), seen \cup {Head(flows).data_type})
         ELSE PyDataObjects(Tail(flows), seen)

PyClass(type) ==
    IF type \in {"actor", "user", "admin"} THEN "Actor"
    ELSE IF type = "external" THEN "ExternalEntity"
    ELSE IF type \in {"database", "cache", "file_storage"} THEN "Datastore"
    ELSE IF type = "lambda" THEN "Lambda"
    ELSE IF type = "process" THEN "Process"
    ELSE "Server"

RECURSIVE PyControls(_, _)
PyControls(var, controls) ==
    IF Len(controls) = 0 THEN <<>>
    ELSE (IF Head(controls).enabled
          THEN <<PyStmt("set", var, "controls." \o Slug(Head(controls).name), TRUE)>>
                   \o (IF Len(Head(controls).config) > 0
                       THEN <<PyComment(Slug(Head(controls).name) \o " config", Head(controls).config)>>
                       ELSE <<>>)
          ELSE <<>>)
             \o PyControls(var, Tail(controls))

\* the boundary variable looked up without the membership test
BoundaryAssignedAlways(comp, boundaryNames) == TRUE

\* if comp.boundary in boundary_vars
BoundaryAssigned(comp, boundaryNames) == comp.boundary \in boundaryNames

PyComponent(comp, boundaryNames) ==
    LET var == Slug(comp.name) IN
    <<PyStmt(PyClass(comp.type), var, comp.name, "")>>
        \o (IF comp.type = "database" THEN <<PyStmt("set", var, "type", "DatastoreType.SQL")>>
            ELSE IF comp.type = "file_storage" THEN <<PyStmt("set", var, "type", "DatastoreType.FILE")>>
            ELSE <<>>)
        \o (IF BoundaryAssigned(comp, boundaryNames)
            THEN <<PyStmt("set", var, "inBoundary", Slug(comp.boundary))>> ELSE <<>>)
        \o (IF Truthy(comp.description)
            THEN <<PyStmt("set", var, "description", comp.description)>> ELSE <<>>)
        \o PyControls(var, comp.security_controls)
        \o MetadataComments(comp.metadata)

RECURSIVE PyComponents(_, _)
PyComponents(comps, boundaryNames) ==
    IF Len(comps) = 0 THEN <<>>
    ELSE PyComponent(Head(comps), boundaryNames) \o PyComponents(Tail(comps), boundaryNames)

\* numbering that counts the flows from one
FlowVarFromOne(i) == "flow_" \o ToString(i + 1)

FlowVar(i) == "flow_" \o ToString(i)

FlowDeclaredAlways(flow, compNames) == TRUE

\* if flow.source in comp_vars and flow.destination in comp_vars
FlowDeclared(flow, compNames) ==
    flow.source \in compNames /\ flow.destination \in compNames

PyFlow(flow, i, dataTypes) ==
    <<PyStmt("Dataflow", FlowVar(i), Slug(flow.source), Slug(flow.destination)),
      PyStmt("set", FlowVar(i), "protocol", flow.protocol)>>
        \o (IF TruthyPort(flow.port) THEN <<PyStmt("set", FlowVar(i), "dstPort", flow.port)>> ELSE <<>>)
        \o (IF flow.data_type \in dataTypes
            THEN <<PyStmt("set", FlowVar(i), "data", DataVar(flow.data_type))>> ELSE <<>>)
        \o (IF Truthy(flow.authentication)
            THEN <<PyStmt("set", FlowVar(i), "authenticatedWith", flow.authentication)>> ELSE <<>>)
        \o (IF Truthy(flow.encryption)
            THEN <<PyStmt("set", FlowVar(i), "isEncrypted", TRUE),
                   PyComment("Encryption", flow.encryption)>> ELSE <<>>)
        \o (IF Truthy(flow.description)
            THEN <<PyStmt("set", FlowVar(i), "description", flow.description)>> ELSE <<>>)
        \o (IF flow.bidirectional
            THEN <<PyStmt("Dataflow", FlowVar(i) \o "_response", Slug(flow.destination), Slug(flow.source)),
                   PyStmt("set", FlowVar(i) \o "_response", "protocol", flow.protocol),
                   PyStmt("set", FlowVar(i) \o "_response", "isResponse", TRUE)>>
            ELSE <<>>)

\* for i, flow in enumerate(dataflows): i counts from 0
RECURSIVE PyFlows(_, _, _, _)
PyFlows(flows, k, compNames, dataTypes) ==
    IF k > Len(flows) THEN <<>>
    ELSE (IF FlowDeclared(flows[k], compNames)
          THEN PyFlow(flows[k], k - 1, dataTypes) ELSE <<>>)
             \o PyFlows(flows, k + 1, compNames, dataTypes)

\* the function left by an exception instead of a return
PyRaised(exc) == <<PyStmt("raise", "", exc, "")>>

\* boundary_vars[comp.boundary], comp_vars[flow.source], comp_vars[flow.destination]:
\* a dictionary subscript raises KeyError when the key was never stored
AdvancedLookupFails(comps, bounds, flows) ==
    \/ \E i \in 1..Len(comps) :
           /\ BoundaryAssigned(comps[i], NamesOf(bounds))
           /\ comps[i].boundary \notin NamesOf(bounds)
    \/ \E k \in 1..Len(flows) :
           /\ FlowDeclared(flows[k], NamesOf(comps))
           /\ \/ flows[k].source \notin NamesOf(comps)
              \/ flows[k].destination \notin NamesOf(comps)

generate_advanced_pytm_code(system_name, desc, comps, bounds, flows, metadata) ==
    IF AdvancedLookupFails(comps, bounds, flows) THEN PyRaised("KeyError")
    ELSE PyHeader(system_name, desc, metadata)
             \o <<PyComment("Trust Boundaries", "")>>
             \o PyBoundaries(bounds)
             \o (IF Len(flows) > 0
                 THEN <<PyComment("Data Objects", "")>> \o PyDataObjects(flows, {})
                 ELSE <<>>)
             \o <<PyComment("Components", "")>>
             \o PyComponents(comps, NamesOf(bounds))
             \o <<PyComment("Data Flows", "")>>
             \o PyFlows(flows, 1, NamesOf(comps), DataTypesOf(flows))
             \o <<PyStmt("main", "tm", "process", "")>>

ComponentClasses == {"Actor", "ExternalEntity", "Datastore", "Lambda", "Process", "Server"}

CountKind(code, kinds) == Cardinality({i \in 1..Len(code) : code[i].kind \in kinds})

(***************************************************************************)
(* The entities the generators are run on.                                 *)
(***************************************************************************)
NoControls == <<>>
NoMetadata == <<>>

cUser == Component("User", "user", "Internet", None, NoControls, NoMetadata)
cWebApp == Component("Web App", "server", "DMZ", "Storefront",
                     <<SecurityControl("WAF", TRUE, <<<<"mode", "block">>>>),
                       SecurityControl("Rate Limit", FALSE, <<>>)>>,
                     <<<<"owner", "web">>>>)
cOrdersDb == Component("Orders-DB", "database", "Internal", None, NoControls, NoMetadata)
cAuditLog == Component("Audit Log", "file_storage", "Vault", None, NoControls, NoMetadata)

bInternet == TrustBoundary("Internet", "Internet", 0, None, <<>>)
bDMZ == TrustBoundary("DMZ", "DMZ", 5, "Perimeter", <<"WAF", "IDS">>)
bInternal == TrustBoundary("Internal", "Internal", 8, None, <<>>)
bPartner == TrustBoundary("Partner", "Cloud", 5, None, <<>>)

GenComponentLists ==
    { <<>>,
      <<cUser, cWebApp>>,
      <<cUser, cWebApp, cOrdersDb>>,
      <<cWebApp, cAuditLog, cOrdersDb>> }

GenBoundaryLists ==
    { <<>>,
      <<bInternet, bDMZ, bInternal>>,
      <<bInternal, bPartner, bInternet, bDMZ>>,
      <<bDMZ, bInternal>> }

fLogin == DataFlow("User", "Web App", "HTTPS", "credentials", "RESTRICTED", TRUE,
                   443, "OAuth2", "TLS 1.3", "Sign in")
fQuery == DataFlow("Web App", "Orders-DB", "SQL", "user data", "CONFIDENTIAL", FALSE,
                   NoPort, None, None, None)
fBilling == DataFlow("Web App", "Billing", "HTTP", "invoice", "PUBLIC", TRUE,
                     0, None, "", None)
fStatus == DataFlow("Orders-DB", "Web App", "Custom", "credentials", "INTERNAL", FALSE,
                    NoPort, None, None, None)
fKeys == DataFlow("User", "Orders-DB", "gRPC", "API key", "TOP_SECRET", FALSE,
                  50051, "mTLS", "TLS 1.3", None)

FlowTemplates == {fLogin, fQuery, fBilling, fStatus, fKeys}

SeqsUpTo(S, n) == UNION {[1..k -> S] : k \in 0..n}

GenFlowLists == SeqsUpTo(FlowTemplates, MaxFlows)

GenSystemName == "Shop"
GenMetadata == <<<<"timestamp", "2024-01-01">>>>

\* the generators applied to entities, in either order
GenerateDot ==
    /\ toolPc = "entities"
    /\ dotText = NoText
    /\ dotText' = generate_advanced_dot(tComponents, tBoundaries, tDataflows)
    /\ UNCHANGED <<entityVars, pyCode, toolPc, callVars, ioVars, toolResult>>
    /\ UNCHANGED <<clsVars, cacheVars, execVars, simpleVars, dfdVars>>

GenerateCode ==
    /\ toolPc = "entities"
    /\ pyCode = NoText
    /\ pyCode' = generate_advanced_pytm_code(GenSystemName, "", tComponents, tBoundaries,
                                             tDataflows, GenMetadata)
    /\ UNCHANGED <<entityVars, dotText, toolPc, callVars, ioVars, toolResult>>
    /\ UNCHANGED <<clsVars, cacheVars, execVars, simpleVars, dfdVars>>

GenNext == GenerateDot \/ GenerateCode

(***************************************************************************)
(* threatmodel_server.py: call_tool and create_advanced_threat_model.      *)
(* A raw dictionary is a record of values with the set of keys present.    *)
(***************************************************************************)
Result(kind, body) == [kind |-> kind, body |-> body]
NoResult == Result("none", <<>>)

NoError == [exc |-> "", arg |-> "", enum |-> ""]
KeyError(key) == [exc |-> "KeyError", arg |-> key, enum |-> ""]
ValueError(value, enum) == [exc |-> "ValueError", arg |-> value, enum |-> enum]
OtherError(what) == [exc |-> "Exception", arg |-> what, enum |-> ""]

\* dict.get(key): the value, or None
Get(raw, key, value) == IF key \in raw.keys THEN value ELSE None
GetOr(raw, key, value, default) == IF key \in raw.keys THEN value ELSE default

\* Component(name=d["name"], type=ComponentType(d["type"]), boundary=d["boundary"], ...)
ComponentError(raw) ==
    IF "name" \notin raw.keys THEN KeyError("name")
    ELSE IF "type" \notin raw.keys THEN KeyError("type")
    ELSE IF raw.type \notin ComponentType THEN ValueError(raw.type, "ComponentType")
    ELSE IF "boundary" \notin raw.keys THEN KeyError("boundary")
    ELSE NoError

BuildComponent(raw) ==
    Component(raw.name, raw.type, raw.boundary, Get(raw, "description", raw.description),
              GetOr(raw, "security_controls", raw.security_controls, <<>>),
              GetOr(raw, "metadata", raw.metadata, <<>>))

\* TrustBoundary(name=d["name"], type=d["type"], security_level=d["security_level"], ...)
BoundaryError(raw) ==
    IF "name" \notin raw.keys THEN KeyError("name")
    ELSE IF "type" \notin raw.keys THEN KeyError("type")
    ELSE IF "security_level" \notin raw.keys THEN KeyError("security_level")
    ELSE NoError

BuildBoundary(raw) ==
    TrustBoundary(raw.name, raw.type, raw.security_level,
                  Get(raw, "description", raw.description),
                  GetOr(raw, "controls", raw.controls, <<>>))

\* a builder that looks the required keys up and converts no enumeration
FlowErrorUnchecked(raw) ==
    IF "source" \notin raw.keys THEN KeyError("source")
    ELSE IF "destination" \notin raw.keys THEN KeyError("destination")
    ELSE IF "protocol" \notin raw.keys THEN KeyError("protocol")
    ELSE IF "data_type" \notin raw.keys THEN KeyError("data_type")
    ELSE IF "classification" \notin raw.keys THEN KeyError("classification")
    ELSE NoError

\* DataFlow(source=d["source"], ..., protocol=Protocol(d["protocol"]), ...)
FlowError(raw) ==
    IF "source" \notin raw.keys THEN KeyError("source")
    ELSE IF "destination" \notin raw.keys THEN KeyError("destination")
    ELSE IF "protocol" \notin raw.keys THEN KeyError("protocol")
    ELSE IF raw.protocol \notin Protocol THEN ValueError(raw.protocol, "Protocol")
    ELSE IF "data_type" \notin raw.keys THEN KeyError("data_type")
    ELSE IF "classification" \notin raw.keys THEN KeyError("classification")
    ELSE IF raw.classification \notin DataClassification
         THEN ValueError(raw.classification, "DataClassification")
    ELSE NoError

BuildFlow(raw) ==
    DataFlow(raw.source, raw.destination, raw.protocol, raw.data_type, raw.classification,
             GetOr(raw, "bidirectional", raw.bidirectional, FALSE),
             GetOr(raw, "port", raw.port, NoPort),
             Get(raw, "authentication", raw.authentication),
             Get(raw, "encryption", raw.encryption),
             Get(raw, "description", raw.description))

\* the first element of a list whose construction raises decides the error
FirstBad(errors) ==
    LET bad == {i \in 1..Len(errors) : errors[i] # NoError} IN
    IF bad = {} THEN NoError
    ELSE errors[CHOOSE i \in bad : \A j \in bad : i <= j]

ComponentErrors(args) == [i \in 1..Len(args.components) |-> ComponentError(args.components[i])]
BoundaryErrors(args) == [i \in 1..Len(args.boundaries) |-> BoundaryError(args.boundaries[i])]
FlowErrors(args) == [i \in 1..Len(args.dataflows) |-> FlowError(args.dataflows[i])]

\* lines 640-680: components, then boundaries, then dataflows
BuildError(args) ==
    IF FirstBad(ComponentErrors(args)) # NoError THEN FirstBad(ComponentErrors(args))
    ELSE IF FirstBad(BoundaryErrors(args)) # NoError THEN FirstBad(BoundaryErrors(args))
    ELSE FirstBad(FlowErrors(args))

BuiltComponents(args) == [i \in 1..Len(args.components) |-> BuildComponent(args.components[i])]
BuiltBoundaries(args) == [i \in 1..Len(args.boundaries) |-> BuildBoundary(args.boundaries[i])]
BuiltDataflows(args) == [i \in 1..Len(args.dataflows) |-> BuildFlow(args.dataflows[i])]

\* metadata = args.get("metadata", {}); metadata["timestamp"] = "2024-01-01"
ToolMetadata == <<<<"timestamp", "2024-01-01">>>>

ToolCode(args) ==
    generate_advanced_pytm_code(args.system_name, args.description, BuiltComponents(args),
                                BuiltBoundaries(args), BuiltDataflows(args), ToolMetadata)

ToolDot(args) ==
    generate_advanced_dot(BuiltComponents(args), BuiltBoundaries(args), BuiltDataflows(args))

(***************************************************************************)
(* max() of str values: comparison by code point, character by character.  *)
(***************************************************************************)
AsciiOrder == " -0123456789ABCDEFGHIJKLMNOPQRSTUVWXYZ_abcdefghijklmnopqrstuvwxyz"

Ord == [c \in CharsOf(AsciiOrder) |->
           CHOOSE i \in 1..Len(AsciiOrder) : CharAt(AsciiOrder, i) = c]

RECURSIVE StrLess(_, _)
StrLess(x, y) ==
    IF Len(y) = 0 THEN FALSE
    ELSE IF Len(x) = 0 THEN TRUE
    ELSE IF CharAt(x, 1) = CharAt(y, 1)
         THEN StrLess(SubSeq(x, 2, Len(x)), SubSeq(y, 2, Len(y)))
         ELSE Ord[CharAt(x, 1)] < Ord[CharAt(y, 1)]

\* max(iterable): the first of the largest elements
RECURSIVE MaxStr(_)
MaxStr(strs) ==
    IF Len(strs) = 1 THEN strs[1]
    ELSE LET m == MaxStr(SubSeq(strs, 1, Len(strs) - 1)) IN
         IF StrLess(m, strs[Len(strs)]) THEN strs[Len(strs)] ELSE m

\* max(f.classification.value for f in dataflows) if dataflows else 'N/A'
HighestClassification(flows) ==
    IF Len(flows) > 0 THEN MaxStr([i \in 1..Len(flows) |-> flows[i].classification])
    ELSE "N/A"

\* str(e) of the exception the builder raised
StrOf(e) ==
    IF e.exc = "KeyError" THEN "'" \o e.arg \o "'"
    ELSE IF e.exc = "ValueError" THEN "'" \o e.arg \o "' is not a valid " \o e.enum
    ELSE e.arg

\* an except clause that lets the exception go on to the caller
ErrorResultReraised(e) == Result("raise", StrOf(e))

\* call_tool's except clause: f"Error: {str(e)}"
ErrorResult(e) == Result("error", "Error: " \o StrOf(e))

(***************************************************************************)
(* The full_analysis report of create_advanced_threat_model.               *)
(***************************************************************************)
\* sorted(boundaries, key=security_level, reverse=True): stable, descending
RECURSIVE InsertByLevelDesc(_, _)
InsertByLevelDesc(sorted, b) ==
    IF Len(sorted) = 0 THEN <<b>>
    ELSE IF sorted[Len(sorted)].security_level >= b.security_level
         THEN Append(sorted, b)
         ELSE Append(InsertByLevelDesc(SubSeq(sorted, 1, Len(sorted) - 1), b),
                     sorted[Len(sorted)])

RECURSIVE SortedByLevelDesc(_)
SortedByLevelDesc(bs) ==
    IF Len(bs) = 0 THEN <<>>
    ELSE InsertByLevelDesc(SortedByLevelDesc(SubSeq(bs, 1, Len(bs) - 1)), bs[Len(bs)])

Endpoints(flows) == [i \in 1..Len(flows) |-> <<flows[i].source, flows[i].destination>>]

AnalysisSection(b, comps) ==
    [boundary |-> b.name, level |-> b.security_level,
     components |-> LET in == SelectSeq(comps, LAMBDA c : c.boundary = b.name)
                    IN [i \in 1..Len(in) |-> in[i].name]]

ClassificationOrder == <<"TOP_SECRET", "RESTRICTED", "CONFIDENTIAL", "INTERNAL", "PUBLIC">>

AnalysisClass(cls, flows) ==
    [classification |-> cls,
     flows |-> Endpoints(SelectSeq(flows, LAMBDA f : f.classification = cls))]

Analysis(desc, comps, bounds, flows) ==
    [overview |-> desc,
     sections |-> [i \in 1..Len(bounds) |-> AnalysisSection(SortedByLevelDesc(bounds)[i], comps)],
     classes |-> SelectSeq([i \in 1..Len(ClassificationOrder) |->
                               AnalysisClass(ClassificationOrder[i], flows)],
                           LAMBDA g : Len(g.flows) > 0),
     critical |-> Endpoints(SelectSeq(flows,
                     LAMBDA f : f.classification \in {"RESTRICTED", "TOP_SECRET"}
                                /\ ~Truthy(f.encryption))),
     authgaps |-> Endpoints(SelectSeq(flows,
                     LAMBDA f : ~Truthy(f.authentication) /\ f.protocol # "HTTPS"))]

(***************************************************************************)
(* The calls the tool is run on.                                           *)
(***************************************************************************)
ComponentKeys == {"name", "type", "boundary", "description", "security_controls", "metadata"}
BoundaryKeys == {"name", "type", "security_level", "description", "controls"}
FlowKeys == {"source", "destination", "protocol", "data_type", "classification", "bidirectional", "port", "authentication", "encryption", "description"}

Raw(keys, entity) == [keys |-> keys] @@ entity

rUser == Raw({"name", "type", "boundary"}, cUser)
rWebApp == Raw(ComponentKeys, cWebApp)
rOrdersDb == Raw({"name", "type", "boundary"}, cOrdersDb)
rBadType == [rWebApp EXCEPT !.type = "mainframe"]
rNoName == [rWebApp EXCEPT !.keys = ComponentKeys \ {"name"}]
rNoBoundary == [rOrdersDb EXCEPT !.keys = {"name", "type"}]

rbInternet == Raw({"name", "type", "security_level"}, bInternet)
rbDMZ == Raw(BoundaryKeys, bDMZ)
rbInternal == Raw({"name", "type", "security_level"}, bInternal)
rbTooHigh == [rbDMZ EXCEPT !.security_level = 11]
rbNegative == [rbInternal EXCEPT !.security_level = -1]
rbNoLevel == [rbDMZ EXCEPT !.keys = BoundaryKeys \ {"security_level"}]

rfLogin == Raw(FlowKeys, fLogin)
rfQuery == Raw({"source", "destination", "protocol", "data_type", "classification"}, fQuery)
rfBilling == Raw(FlowKeys \ {"authentication", "description"}, fBilling)
rfStatus == Raw({"source", "destination", "protocol", "data_type", "classification"}, fStatus)
rfKeys == Raw(FlowKeys \ {"description"}, fKeys)
rfBadProtocol == [rfQuery EXCEPT !.protocol = "FTP"]
rfBadClass == [rfStatus EXCEPT !.classification = "SECRET"]
rfNoDataType == [rfLogin EXCEPT !.keys = FlowKeys \ {"data_type"}]

RawFlowTemplates == {rfLogin, rfQuery, rfBilling, rfStatus, rfKeys}

ValidComponents == <<rUser, rWebApp, rOrdersDb>>
ValidBoundaries == <<rbInternet, rbDMZ, rbInternal>>

RawComponentLists ==
    { ValidComponents, <<>>, <<rUser, rBadType, rOrdersDb>>, <<rUser, rNoName>>,
      <<rNoBoundary, rBadType>> }

RawBoundaryLists ==
    { ValidBoundaries, <<rbInternet, rbTooHigh>>, <<rbNegative, rbDMZ>>,
      <<rbInternet, rbNoLevel, rbTooHigh>> }

RawFlowLists ==
    { <<>>, <<rfLogin, rfQuery>>, <<rfLogin, rfBadProtocol>>, <<rfBadClass, rfBadProtocol>>,
      <<rfKeys, rfNoDataType>> }

OutputFormats == {"diagram", "pytm_code", "threats", "full_analysis"}

Args(comps, bounds, flows, fmt, save) ==
    [system_name |-> GenSystemName, description |-> "Online shop", components |-> comps,
     boundaries |-> bounds, dataflows |-> flows, output_format |-> fmt, auto_save |-> save]

\* well-formed calls over every list of flows, and malformed calls
ToolArgs ==
    {Args(ValidComponents, ValidBoundaries, fl, fmt, save) :
        fl \in SeqsUpTo(RawFlowTemplates, MaxFlows), fmt \in OutputFormats, save \in BOOLEAN}
    \cup
    {Args(cl, bl, fl, fmt, save) :
        cl \in RawComponentLists, bl \in RawBoundaryLists, fl \in RawFlowLists,
        fmt \in OutputFormats, save \in BOOLEAN}

\* the tools that return a fixed report built from a few optional arguments
StaticTools == {"analyze_security_threats", "generate_security_controls", "validate_architecture"}

ToolNames == {"create_threat_model"} \cup StaticTools

\* an item of the wrong type: a number where a string belongs
NotText == "<7>"

\* a value given for validation_rules: a list, or a number, which has no len()
RulesValue(sized, items) == [sized |-> sized, items |-> items]

StaticArgs(frameworks, rules) ==
    [threat_frameworks |-> frameworks, validation_rules |-> rules]
        @@ Args(ValidComponents, ValidBoundaries, <<>>, "diagram", TRUE)

StaticArgSets ==
    {StaticArgs(f, r) : f \in {<<"STRIDE">>, <<"MITRE_ATTACK", "STRIDE">>, <<NotText>>},
                        r \in {RulesValue(TRUE, <<>>), RulesValue(TRUE, <<"api-gateway">>),
                               RulesValue(FALSE, <<>>)}}

ToolCalls ==
    {<<"create_threat_model", a>> : a \in ToolArgs}
    \cup {<<"render_threat_model", Args(ValidComponents, ValidBoundaries, <<>>, "diagram", TRUE)>>}
    \cup {<<n, a>> : n \in StaticTools, a \in StaticArgSets}

\* ', '.join(frameworks) needs strings; len(validation_rules) needs a sized value
StaticError(name, args) ==
    IF name = "analyze_security_threats" /\ \E i \in 1..Len(args.threat_frameworks) :
                                                args.threat_frameworks[i] = NotText
    THEN OtherError("sequence item 0: expected str instance, int found")
    ELSE IF name = "validate_architecture" /\ ~args.validation_rules.sized
    THEN OtherError("object of type 'int' has no len()")
    ELSE NoError

(***************************************************************************)
(* call_tool("create_threat_model", args), up to each point where the      *)
(* handler returns or awaits the rasterizer.                                *)
(***************************************************************************)
\* with open(path, 'w') ...: saved_files.append(...) / print("Warning: ...")
WriteFiles(labels, ok) ==
    /\ files' = files \o SelectSeq(labels, LAMBDA l : ok[l])
    /\ savedFiles' = savedFiles \o SelectSeq(labels, LAMBDA l : ok[l])
    /\ warnings' = warnings \o SelectSeq(labels, LAMBDA l : ~ok[l])

FileLabels == {"DOT", "PyTM", "PNG", "Report"}
WriteOutcomes == [FileLabels -> BOOLEAN]

Built(args) ==
    /\ tComponents' = BuiltComponents(args)
    /\ tBoundaries' = BuiltBoundaries(args)
    /\ tDataflows' = BuiltDataflows(args)

Accepts == toolPc = "call" /\ toolName = "create_threat_model" /\ BuildError(tArgs) = NoError

ToolUnknown ==
    /\ toolPc = "call"
    /\ toolName \notin ToolNames
    /\ toolResult' = Result("unknown", "Unknown tool: " \o toolName)
    /\ toolPc' = "returned"
    /\ UNCHANGED <<entityVars, textVars, callVars, ioVars>>
    /\ UNCHANGED <<clsVars, cacheVars, execVars, simpleVars, dfdVars>>

\* analyze_advanced_threats, generate_security_controls, validate_architecture
ToolStatic ==
    /\ toolPc = "call"
    /\ toolName \in StaticTools
    /\ toolResult' = IF StaticError(toolName, tArgs) = NoError
                     THEN Result("report", toolName)
                     ELSE ErrorResult(StaticError(toolName, tArgs))
    /\ toolPc' = "returned"
    /\ UNCHANGED <<entityVars, textVars, callVars, ioVars>>
    /\ UNCHANGED <<clsVars, cacheVars, execVars, simpleVars, dfdVars>>

ToolRejects ==
    /\ toolPc = "call"
    /\ toolName = "create_threat_model"
    /\ BuildError(tArgs) # NoError
    /\ toolResult' = ErrorResult(BuildError(tArgs))
    /\ toolPc' = "returned"
    /\ UNCHANGED <<entityVars, textVars, callVars, ioVars>>
    /\ UNCHANGED <<clsVars, cacheVars, execVars, simpleVars, dfdVars>>

ToolPytmCode ==
    /\ Accepts
    /\ tArgs.output_format = "pytm_code"
    /\ Built(tArgs)
    /\ pyCode' = ToolCode(tArgs)
    /\ toolResult' = Result("code", pyCode')
    /\ toolPc' = "returned"
    /\ UNCHANGED <<dotText, callVars, ioVars>>
    /\ UNCHANGED <<clsVars, cacheVars, execVars, simpleVars, dfdVars>>

ToolInvalidFormat ==
    /\ Accepts
    /\ tArgs.output_format \notin {"pytm_code", "diagram", "full_analysis"}
    /\ Built(tArgs)
    /\ toolResult' = Result("invalid", "Invalid output format")
    /\ toolPc' = "returned"
    /\ UNCHANGED <<textVars, callVars, ioVars>>
    /\ UNCHANGED <<clsVars, cacheVars, execVars, simpleVars, dfdVars>>

DotResult(dot, saved) == Result("diagram_dot", [dot |-> dot, saved_files |-> saved])

ImageResult(comps, bounds, flows, saved) ==
    Result("diagram_image",
           [components |-> Len(comps), boundaries |-> Len(bounds), flows |-> Len(flows),
            highest |-> HighestClassification(flows), saved_files |-> saved])

AnalysisResult(args, comps, bounds, flows, saved) ==
    Result("analysis",
           [analysis |-> Analysis(args.description, comps, bounds, flows),
            saved_files |-> saved])

\* output_format == "diagram", up to the await or the return without Graphviz
ToolDiagram ==
    /\ Accepts
    /\ tArgs.output_format = "diagram"
    /\ Built(tArgs)
    /\ dotText' = ToolDot(tArgs)
    /\ pyCode' = IF tArgs.auto_save THEN ToolCode(tArgs) ELSE NoText
    /\ \E ok \in WriteOutcomes :
           WriteFiles(IF tArgs.auto_save THEN <<"DOT", "PyTM">> ELSE <<>>, ok)
    /\ IF graphviz
       THEN toolPc' = "convert" /\ UNCHANGED toolResult
       ELSE toolPc' = "returned" /\ toolResult' = DotResult(dotText', savedFiles')
    /\ UNCHANGED callVars
    /\ UNCHANGED <<clsVars, cacheVars, execVars, simpleVars, dfdVars>>

\* convert_dot_to_image returned to the diagram branch: an image, None, or an exception
ToolDiagramConverted ==
    /\ toolPc = "convert"
    /\ tArgs.output_format = "diagram"
    /\ \E outcome \in {"image", "none", "raise"}, ok \in WriteOutcomes :
           /\ WriteFiles(IF outcome = "image" /\ tArgs.auto_save THEN <<"PNG">> ELSE <<>>, ok)
           /\ toolResult' =
                  IF outcome = "image"
                  THEN ImageResult(tComponents, tBoundaries, tDataflows, savedFiles')
                  ELSE IF outcome = "none" THEN DotResult(dotText, savedFiles')
                  ELSE ErrorResult(OtherError("rasterizer failed"))
    /\ toolPc' = "returned"
    /\ UNCHANGED <<entityVars, textVars, callVars>>
    /\ UNCHANGED <<clsVars, cacheVars, execVars, simpleVars, dfdVars>>

\* output_format == "full_analysis", up to the await or the return
ToolFullAnalysis ==
    /\ Accepts
    /\ tArgs.output_format = "full_analysis"
    /\ Built(tArgs)
    /\ dotText' = IF tArgs.auto_save THEN ToolDot(tArgs) ELSE NoText
    /\ pyCode' = IF tArgs.auto_save THEN ToolCode(tArgs) ELSE NoText
    /\ IF tArgs.auto_save /\ graphviz
       THEN /\ \E ok \in WriteOutcomes : WriteFiles(<<"DOT", "PyTM">>, ok)
            /\ toolPc' = "convert"
            /\ UNCHANGED toolResult
       ELSE /\ \E ok \in WriteOutcomes :
                  WriteFiles(IF tArgs.auto_save THEN <<"DOT", "PyTM", "Report">> ELSE <<>>, ok)
            /\ toolPc' = "returned"
            /\ toolResult' = AnalysisResult(tArgs, tComponents', tBoundaries', tDataflows',
                                            savedFiles')
    /\ UNCHANGED callVars
    /\ UNCHANGED <<clsVars, cacheVars, execVars, simpleVars, dfdVars>>

\* convert_dot_to_image returned to the full_analysis branch
ToolAnalysisConverted ==
    /\ toolPc = "convert"
    /\ tArgs.output_format = "full_analysis"
    /\ \E outcome \in {"image", "none", "raise"}, ok \in WriteOutcomes :
           /\ WriteFiles(IF outcome = "image" THEN <<"PNG", "Report">>
                         ELSE IF outcome = "none" THEN <<"Report">> ELSE <<>>, ok)
           /\ toolResult' =
                  IF outcome = "raise" THEN ErrorResult(OtherError("rasterizer failed"))
                  ELSE AnalysisResult(tArgs, tComponents, tBoundaries, tDataflows, savedFiles')
    /\ toolPc' = "returned"
    /\ UNCHANGED <<entityVars, textVars, callVars>>
    /\ UNCHANGED <<clsVars, cacheVars, execVars, simpleVars, dfdVars>>

ToolNext ==
    \/ ToolUnknown
    \/ ToolStatic
    \/ ToolRejects
    \/ ToolPytmCode
    \/ ToolInvalidFormat
    \/ ToolDiagram
    \/ ToolDiagramConverted
    \/ ToolFullAnalysis
    \/ ToolAnalysisConverted

(***************************************************************************)
(* pytm_generator.py: execute_pytm_fast and convert_dot_to_image, each     *)
(* running one child process.  Time is counted in the units of the         *)
(* timeout while the function awaits the child.                            *)
(***************************************************************************)
Timeout == 10
MaxWait == Timeout + 1

NoChild == [state |-> "none", rc |-> 0, out |-> ""]
Running == [state |-> "running", rc |-> 0, out |-> ""]
Exited(rc, out) == [state |-> "exited", rc |-> rc, out |-> out]
Killed == [state |-> "killed", rc |-> -9, out |-> ""]

\* what a child leaves behind: the script's stdout, or the rasterizer's output file
ScriptOutputs == {"findings", "digraph {", "digraph tm { rankdir=LR"}
RasterOutputs == {"", "png"}

\* the layout directives added to the DOT text a --dfd run printed
Replace(out, old, new) ==
    IF Contains(out, old)
    THEN LET i == CHOOSE i \in 1..Len(out) :
                      /\ SubSeq(out, i, i + Len(old) - 1) = old
                      /\ \A j \in 1..(i - 1) : SubSeq(out, j, j + Len(old) - 1) # old
         IN SubSeq(out, 1, i - 1) \o new \o SubSeq(out, i + Len(old), Len(out))
    ELSE out

EnhancedOutput(out, dfd) ==
    IF dfd /\ Contains(out, "digraph")
    THEN LET named == Replace(out, "digraph {", "digraph ThreatModel {") IN
         IF ~Contains(named, "rankdir=")
         THEN Replace(named, "digraph ThreatModel {",
                      "digraph ThreatModel { rankdir=TB; nodesep=1.5; ranksep=2;")
         ELSE named
    ELSE out

\* the finally clause: up to three attempts to remove the directory, errors ignored
MaxAttempts == 3

\* how each removal would go if it were attempted
RemovalOutcomes == [1..MaxAttempts -> BOOLEAN]

\* the number of attempts made: up to the first success, MaxAttempts at most
AttemptsMade(outcomes) ==
    IF \E n \in 1..MaxAttempts : outcomes[n]
    THEN CHOOSE n \in 1..MaxAttempts : outcomes[n] /\ \A m \in 1..(n - 1) : ~outcomes[m]
    ELSE MaxAttempts

\* a loop without the break: every attempt is made
CleanupNoBreak(outcomes) ==
    /\ xAttempts' = outcomes
    /\ xTemp' = IF \E n \in 1..MaxAttempts : outcomes[n] THEN "removed" ELSE "present"

Cleanup(outcomes) ==
    /\ xAttempts' = SubSeq(outcomes, 1, AttemptsMade(outcomes))
    /\ xTemp' = IF outcomes[AttemptsMade(outcomes)] THEN "removed" ELSE "present"

Returns(result) == xResult' = result /\ xPc' = "returned"

\* if not python_cmd: return {"error": "Python not found..."}
ExecNoPython ==
    /\ xPc = "call"
    /\ xOp = "execute_pytm_fast"
    /\ xCmd = ""
    /\ Returns(Result("error", "Python not found"))
    /\ UNCHANGED <<xOp, xCmd, xDfd, xChild, xWaited, xTemp, xAttempts>>
    /\ UNCHANGED <<clsVars, cacheVars, toolVars, simpleVars, dfdVars>>

\* mkdtemp, write the input file, create_subprocess_exec; either may raise
Spawn ==
    /\ xPc = "call"
    /\ xOp = "execute_pytm_fast" => xCmd # ""
    /\ \E started \in BOOLEAN, outcomes \in RemovalOutcomes :
           IF started
           THEN /\ xChild' = Running
                /\ xTemp' = "present"
                /\ xPc' = "awaiting"
                /\ UNCHANGED <<xResult, xAttempts>>
           ELSE /\ Cleanup(outcomes)
                /\ Returns(Result("raise", "OSError"))
                /\ UNCHANGED xChild
    /\ UNCHANGED <<xOp, xCmd, xDfd, xWaited>>
    /\ UNCHANGED <<clsVars, cacheVars, toolVars, simpleVars, dfdVars>>

\* the child terminates on its own; nothing obliges it to
ChildExits ==
    /\ xChild = Running
    /\ \E rc \in {0, 1} :
       \E out \in (IF xOp = "execute_pytm_fast" THEN ScriptOutputs ELSE RasterOutputs) :
           xChild' = Exited(rc, out)
    /\ UNCHANGED <<xOp, xCmd, xDfd, xPc, xWaited, xTemp, xAttempts, xResult>>
    /\ UNCHANGED <<clsVars, cacheVars, toolVars, simpleVars, dfdVars>>

\* a unit of time passes while the function awaits; wait_for expires at Timeout
Tick ==
    /\ xPc = "awaiting"
    /\ xChild = Running
    /\ xWaited < (IF xOp = "execute_pytm_fast" THEN Timeout ELSE MaxWait)
    /\ xWaited' = xWaited + 1
    /\ UNCHANGED <<xOp, xCmd, xDfd, xPc, xChild, xTemp, xAttempts, xResult>>
    /\ UNCHANGED <<clsVars, cacheVars, toolVars, simpleVars, dfdVars>>

\* except asyncio.TimeoutError: process.kill(); await process.wait(); return error
ExecTimeout ==
    /\ xPc = "awaiting"
    /\ xOp = "execute_pytm_fast"
    /\ xChild = Running
    /\ xWaited = Timeout
    /\ xChild' = Killed
    /\ \E outcomes \in RemovalOutcomes : Cleanup(outcomes)
    /\ Returns(Result("error", "PyTM execution timed out. Try a simpler model."))
    /\ UNCHANGED <<xOp, xCmd, xDfd, xWaited>>
    /\ UNCHANGED <<clsVars, cacheVars, toolVars, simpleVars, dfdVars>>

\* communicate() returned within the timeout
ExecCommunicated ==
    /\ xPc = "awaiting"
    /\ xOp = "execute_pytm_fast"
    /\ xChild.state = "exited"
    /\ \E outcomes \in RemovalOutcomes : Cleanup(outcomes)
    /\ Returns(IF xChild.rc = 0
               THEN Result("success", EnhancedOutput(xChild.out, xDfd))
               ELSE Result("error", "stderr"))
    /\ UNCHANGED <<xOp, xCmd, xDfd, xChild, xWaited>>
    /\ UNCHANGED <<clsVars, cacheVars, toolVars, simpleVars, dfdVars>>

\* await process.communicate() of convert_dot_to_image returned
ConvertCommunicated ==
    /\ xPc = "awaiting"
    /\ xOp = "convert_dot_to_image"
    /\ xChild.state = "exited"
    /\ \E outcomes \in RemovalOutcomes : Cleanup(outcomes)
    /\ Returns(IF xChild.rc = 0 /\ xChild.out # ""
               THEN Result("image", xChild.out)
               ELSE Result("none", None))
    /\ UNCHANGED <<xOp, xCmd, xDfd, xChild, xWaited>>
    /\ UNCHANGED <<clsVars, cacheVars, toolVars, simpleVars, dfdVars>>

ExecNext ==
    \/ ExecNoPython
    \/ Spawn
    \/ ChildExits
    \/ Tick
    \/ ExecTimeout
    \/ ExecCommunicated
    \/ ConvertCommunicated

(***************************************************************************)
(* core_utils.py: generate_simple_dot, on the component dictionaries and   *)
(* boundary names of the classifier.                                       *)
(***************************************************************************)
OfType(comps, types) == SelectSeq(comps, LAMBDA c : c.type \in types)

SimpleActors(comps) == OfType(comps, {"actor"})
SimpleServers(comps) == OfType(comps, {"server", "process"})
SimpleStores(comps) == OfType(comps, {"datastore"})
SimpleExternals(comps) == OfType(comps, {"external"})

BoundaryOrder == <<"Internet", "DMZ", "Internal">>

\* the clusters laid out in the order the names were given
OrderedBoundariesAsGiven(bs) == bs

\* the fixed order first, then the other names in list order
OrderedBoundaries(bs) ==
    SelectSeq(BoundaryOrder, LAMBDA b : b \in SeqToSet(bs))
        \o SelectSeq(bs, LAMBDA b : b \notin SeqToSet(BoundaryOrder))

\* colors.get(boundary, '#f5f5f5')
BoundaryColor(b) ==
    IF b = "Internet" THEN "#e3f2fd"
    ELSE IF b = "DMZ" THEN "#fff9c4"
    ELSE IF b = "Internal" THEN "#f1f8e9"
    ELSE IF b = "Cloud" THEN "#f3e5f5"
    ELSE "#f5f5f5"

SimpleShape(type) ==
    IF type = "actor" THEN "ellipse"
    ELSE IF type = "server" THEN "box"
    ELSE IF type = "datastore" THEN "cylinder"
    ELSE IF type = "external" THEN "house"
    ELSE IF type = "process" THEN "component"
    ELSE "box"

\* fillcolor of the node, by component type
SimpleFill(type) ==
    IF type = "actor" THEN "#2196f3"
    ELSE IF type = "server" THEN "#4caf50"
    ELSE IF type = "datastore" THEN "#ff9800"
    ELSE IF type = "external" THEN "#f44336"
    ELSE IF type = "process" THEN "#9c27b0"
    ELSE "#607d8b"

VarsOf(comps) == [i \in 1..Len(comps) |-> Slug(comps[i].name)]

\* the rank=same helper over the first half of a boundary with more than two components
LayoutHelper(inside, b) ==
    IF Len(inside) > 2
    THEN <<DotLine("rank", "", "", VarsOf(SubSeq(inside, 1, Len(inside) \div 2)), b)>>
    ELSE <<>>

SimpleNodes(inside) ==
    [i \in 1..Len(inside) |->
        DotLine("node", Slug(inside[i].name), SimpleFill(inside[i].type), inside[i].name,
                SimpleShape(inside[i].type))]

RECURSIVE SimpleClusters(_, _, _)
SimpleClusters(comps, ordered, i) ==
    IF i > Len(ordered) THEN <<>>
    ELSE LET inside == SelectSeq(comps, LAMBDA c : c.boundary = ordered[i]) IN
         <<DotLine("subgraph", ToString(i - 1), BoundaryColor(ordered[i]), ordered[i], "")>>
             \o LayoutHelper(inside, ordered[i])
             \o SimpleNodes(inside)
             \o <<DotLine("end", "", "", "", "")>>
             \o SimpleClusters(comps, ordered, i + 1)

\* a cross product the loop visits in full, with no condition on the indices
PrimaryFlowAlways(i, j) == TRUE

\* if i == 0 or j == 0, on the 0-based indices of enumerate
PrimaryFlow(i, j) == i = 0 \/ j = 0

\* for i, actor in enumerate(actors): for j, server in enumerate(servers)
RECURSIVE ActorEdges(_, _, _, _)
ActorEdges(actors, servers, i, j) ==
    IF i >= Len(actors) THEN <<>>
    ELSE IF j >= Len(servers) THEN ActorEdges(actors, servers, i + 1, 0)
    ELSE LET a_var == Slug(actors[i + 1].name)
             s_var == Slug(servers[j + 1].name)
         IN (IF PrimaryFlow(i, j)
             THEN <<DotLine("edge", a_var, s_var, "HTTPS", "")>>
                      \o (IF i = 0 /\ j = 0
                          THEN <<DotLine("edge", s_var, a_var, "Response", "dashed")>>
                          ELSE <<>>)
             ELSE <<>>)
                \o ActorEdges(actors, servers, i, j + 1)

\* servers[:1]
FirstOnlyAll(servers) == servers

FirstOnly(servers) == SubSeq(servers, 1, IF Len(servers) > 0 THEN 1 ELSE 0)

\* for server in servers[:1]: for target in targets
ServerEdges(servers, targets, label) ==
    LET from == FirstOnly(servers) IN
    [k \in 1..(Len(from) * Len(targets)) |->
        DotLine("edge", Slug(from[((k - 1) \div Len(targets)) + 1].name),
                Slug(targets[((k - 1) % Len(targets)) + 1].name), label, "")]

generate_simple_dot(comps, bs) ==
    <<DotLine("digraph", "ThreatModel", "", "", "")>>
        \o SimpleClusters(comps, OrderedBoundaries(bs), 1)
        \o <<DotLine("comment", "", "", "Data flows", "")>>
        \o ActorEdges(SimpleActors(comps), SimpleServers(comps), 0, 0)
        \o ServerEdges(SimpleServers(comps), SimpleStores(comps), "Query")
        \o ServerEdges(SimpleServers(comps), SimpleExternals(comps), "API")
        \o <<DotLine("close", "", "", "", "")>>

(***************************************************************************)
(* pytm_generator.py: generate_pytm_code.                                  *)
(***************************************************************************)
\* the chain of type tests without the branch for process
SimpleClassNoProcess(type) ==
    IF type = "actor" THEN "Actor"
    ELSE IF type = "server" THEN "Server"
    ELSE IF type = "datastore" THEN "Datastore"
    ELSE IF type = "external" THEN "ExternalEntity"
    ELSE None

SimpleClass(type) ==
    IF type = "actor" THEN "Actor"
    ELSE IF type = "server" THEN "Server"
    ELSE IF type = "datastore" THEN "Datastore"
    ELSE IF type = "process" THEN "Process"
    ELSE IF type = "external" THEN "ExternalEntity"
    ELSE None

SimpleBoundaryStmts(bs) ==
    [i \in 1..Len(bs) |-> PyStmt("Boundary", Slug(bs[i]), bs[i], "")]

SimpleComponentStmts(comp) ==
    (IF SimpleClass(comp.type) # None
     THEN <<PyStmt(SimpleClass(comp.type), Slug(comp.name), comp.name, "")>> ELSE <<>>)
        \o <<PyStmt("set", Slug(comp.name), "inBoundary", Slug(comp.boundary))>>

RECURSIVE SimpleComponents(_)
SimpleComponents(comps) ==
    IF Len(comps) = 0 THEN <<>>
    ELSE SimpleComponentStmts(Head(comps)) \o SimpleComponents(Tail(comps))

FirstTwo(seq) == SubSeq(seq, 1, IF Len(seq) > 2 THEN 2 ELSE Len(seq))

\* for i, actor in enumerate(actors[:2]): for j, server in enumerate(servers[:2])
RECURSIVE RequestFlows(_, _, _, _)
RequestFlows(actors, servers, i, j) ==
    IF i >= Len(actors) THEN <<>>
    ELSE IF j >= Len(servers) THEN RequestFlows(actors, servers, i + 1, 0)
    ELSE LET a_var == Slug(actors[i + 1].name)
             s_var == Slug(servers[j + 1].name)
         IN <<PyStmt("Dataflow", "", <<a_var, s_var>>, "Request")>>
                \o (IF i = 0 /\ j = 0
                    THEN <<PyStmt("Dataflow", "", <<s_var, a_var>>, "Response")>> ELSE <<>>)
                \o RequestFlows(actors, servers, i, j + 1)

\* for server in servers[:1]: for store in stores[:2]
QueryFlows(servers, stores) ==
    LET from == FirstOnly(servers)
        to == FirstTwo(stores)
    IN [k \in 1..(Len(from) * Len(to)) |->
           PyStmt("Dataflow", "", <<Slug(from[1].name), Slug(to[k].name)>>, "Query")]

\* comp_vars[c['name']] of a component that takes part in a flow: KeyError when absent
SimpleLookupFails(comps) ==
    \E c \in SeqToSet(FirstTwo(SimpleActors(comps))) \cup SeqToSet(FirstTwo(SimpleServers(comps)))
                \cup SeqToSet(FirstTwo(SimpleStores(comps))) :
        c.name \notin NamesOf(comps)

generate_pytm_code(desc, comps, bs) ==
    IF SimpleLookupFails(comps) THEN PyRaised("KeyError")
    ELSE <<PyStmt("TM", "tm", "Threat Model", desc)>>
             \o SimpleBoundaryStmts(bs)
             \o SimpleComponents(comps)
             \o RequestFlows(FirstTwo(SimpleActors(comps)), FirstTwo(SimpleServers(comps)), 0, 0)
             \o QueryFlows(SimpleServers(comps), SimpleStores(comps))
             \o <<PyStmt("main", "tm", "process", "")>>

(***************************************************************************)
(* The dictionaries the simple generators are run on.                      *)
(***************************************************************************)
MaxComps == 4

SimpleTemplates ==
    {Comp("User", "actor", "Internet"), Comp("Admin", "actor", "Internet"),
     Comp("Web Frontend", "server", "Internet"), Comp("Microservice", "process", "Internal"),
     Comp("Database", "datastore", "Internal"), Comp("Payment Gateway", "external", "Partner")}

SimpleComponentLists == SeqsUpTo(SimpleTemplates, MaxComps)

\* boundary names as extract_components returns them: list(set), so without duplicates
SimpleBoundaryLists ==
    {<<"Internal", "Internet", "DMZ">>, <<"Partner", "Internal", "Cloud", "Internet">>}

GenerateSimpleDot ==
    /\ sPc = "inputs"
    /\ simpleDot = NoText
    /\ simpleDot' = generate_simple_dot(sComponents, sBoundaries)
    /\ UNCHANGED <<sComponents, sBoundaries, simpleCode, sPc>>
    /\ UNCHANGED <<clsVars, cacheVars, toolVars, execVars, dfdVars>>

GeneratePytmCode ==
    /\ sPc = "inputs"
    /\ simpleCode = NoText
    /\ simpleCode' = generate_pytm_code("", sComponents, sBoundaries)
    /\ UNCHANGED <<sComponents, sBoundaries, simpleDot, sPc>>
    /\ UNCHANGED <<clsVars, cacheVars, toolVars, execVars, dfdVars>>

SimpleNext == GenerateSimpleDot \/ GeneratePytmCode

\* the classifier's result handed to generate_pytm_code
PytmCodeOfExtracted ==
    /\ clsPc = "extracted"
    /\ simpleCode = NoText
    /\ simpleCode' = generate_pytm_code(description, components, boundaries)
    /\ UNCHANGED <<sComponents, sBoundaries, simpleDot, sPc>>
    /\ UNCHANGED <<clsVars, cacheVars, toolVars, execVars, dfdVars>>

PipelineNext == ExtractComponents \/ PytmCodeOfExtracted

(***************************************************************************)
(* server.py: the tool generate_data_flow_diagram, handled by call_tool    *)
(* and generate_pytm_diagram.  The filesystem is the directory named by    *)
(* output_dir, if any, and the temporary directory of the call.            *)
(***************************************************************************)
NoArgs == [components |-> <<>>, output_format |-> "", output_dir |-> ""]

NoDirs == [given |-> "none", temp |-> "none", work |-> "none", cleanup |-> FALSE, saved |-> "none"]

DfdComponent(keys, name, type, desc) ==
    [keys |-> keys, name |-> name, type |-> type, description |-> desc]

DfdComponentLists ==
    { <<>>,
      <<DfdComponent({"name", "type", "description"}, "User", "actor", "End user"),
        DfdComponent({"name", "type"}, "Web Server", "server", "")>>,
      <<DfdComponent({"type"}, "", "datastore", "")>>,
      <<DfdComponent({"name", "type", "description"}, "Orders", "queue", "Order events")>> }

DfdFormats == {"dfd", "seq", "stride", "png"}

\* "" when the argument is absent; "out" is a directory that exists, "gone" is not
DfdOutputDirs == {"", "out", "gone"}

Exists(output_dir) == output_dir = "out"

DfdTypes == {"actor", "server", "datastore", "boundary"}

\* comp["name"], comp["type"] and component_objects[comp_name].description = comp_desc
RECURSIVE DfdBuildRaises(_, _)
DfdBuildRaises(comps, stored) ==
    IF Len(comps) = 0 THEN FALSE
    ELSE LET comp == Head(comps)
             now == IF comp.type \in DfdTypes THEN stored \cup {comp.name} ELSE stored
         IN \/ "name" \notin comp.keys
            \/ "type" \notin comp.keys
            \/ ("description" \in comp.keys /\ comp.description # "" /\ comp.name \notin now)
            \/ DfdBuildRaises(Tail(comps), now)

\* the directory is removed at the end, whoever supplied it
CleanupDirAlways(output_dir) == TRUE

\* if output_dir and os.path.exists(output_dir): cleanup_dir = False, else True
CleanupDir(output_dir) == ~(output_dir # "" /\ Exists(output_dir))

\* if not PYTM_AVAILABLE: the import of pytm failed when the module was loaded
DfdUnavailable ==
    /\ dPc = "call"
    /\ dResult' = Result("unavailable", "PyTM is not available")
    /\ dPc' = "returned"
    /\ UNCHANGED <<dArgs, dDirs>>
    /\ UNCHANGED <<clsVars, cacheVars, toolVars, execVars, simpleVars>>

\* building the pytm objects raises: call_tool's except returns the error text
DfdBadArguments ==
    /\ dPc = "call"
    /\ DfdBuildRaises(dArgs.components, {})
    /\ dResult' = Result("error_generating", "KeyError")
    /\ dPc' = "returned"
    /\ UNCHANGED <<dArgs, dDirs>>
    /\ UNCHANGED <<clsVars, cacheVars, toolVars, execVars, simpleVars>>

\* the working directory: output_dir if it exists, mkdtemp() otherwise
DfdWorkDir ==
    /\ dPc = "call"
    /\ ~DfdBuildRaises(dArgs.components, {})
    /\ dDirs' = IF CleanupDir(dArgs.output_dir)
                THEN [dDirs EXCEPT !.work = "temp", !.temp = "present", !.cleanup = TRUE]
                ELSE [dDirs EXCEPT !.work = "given", !.cleanup = FALSE]
    /\ dPc' = "generating"
    /\ UNCHANGED <<dArgs, dResult>>
    /\ UNCHANGED <<clsVars, cacheVars, toolVars, execVars, simpleVars>>

\* tm.process() and the branch of the output format; an unknown format leaves
\* result unbound
DfdGenerate ==
    /\ dPc = "generating"
    /\ IF dArgs.output_format \in {"dfd", "seq", "stride"}
       THEN \E outcome \in {"saved", "not_saved", "process_raises"} :
                /\ dDirs' = IF outcome = "saved" THEN [dDirs EXCEPT !.saved = dDirs.work]
                            ELSE dDirs
                /\ dResult' = IF outcome = "saved" THEN Result("generated", dDirs.work)
                              ELSE IF outcome = "not_saved" THEN Result("not_generated", "")
                              ELSE Result("raise", "Exception")
       ELSE /\ dResult' = Result("raise", "UnboundLocalError")
            /\ UNCHANGED dDirs
    /\ dPc' = "finally"
    /\ UNCHANGED dArgs
    /\ UNCHANGED <<clsVars, cacheVars, toolVars, execVars, simpleVars>>

\* finally: rmtree of a directory the call created; then the return, or the
\* outer except for an exception on its way out
DfdFinally ==
    /\ dPc = "finally"
    /\ dDirs' = IF dDirs.cleanup
                THEN (IF dDirs.work = "temp" THEN [dDirs EXCEPT !.temp = "removed"]
                      ELSE [dDirs EXCEPT !.given = "removed"])
                ELSE dDirs
    /\ dResult' = IF dResult.kind = "raise" THEN Result("error_processing", dResult.body)
                  ELSE dResult
    /\ dPc' = "returned"
    /\ UNCHANGED dArgs
    /\ UNCHANGED <<clsVars, cacheVars, toolVars, execVars, simpleVars>>

DfdNext == DfdUnavailable \/ DfdBadArguments \/ DfdWorkDir \/ DfdGenerate \/ DfdFinally

(***************************************************************************)
(* Specifications: one per part of the program, the other parts idle.      *)
(***************************************************************************)
InitClassify ==
    /\ description \in Descriptions
    /\ hashOrder \in Permutation(BoundaryNames)
    /\ components = <<>>
    /\ boundaries = <<>>
    /\ clsPc = "start"
    /\ clsPrev = NoCall
    /\ caches = EmptyCaches
    /\ locks = [s \in Slots |-> NoCaller]
    /\ produced = [s \in Slots |-> <<>>]
    /\ callers = << >>
    /\ tComponents = <<>>
    /\ tBoundaries = <<>>
    /\ tDataflows = <<>>
    /\ dotText = NoText
    /\ pyCode = NoText
    /\ toolPc = "off"
    /\ toolName = ""
    /\ tArgs = <<>>
    /\ graphviz = FALSE
    /\ files = <<>>
    /\ savedFiles = <<>>
    /\ warnings = <<>>
    /\ toolResult = NoResult
    /\ xOp = ""
    /\ xCmd = ""
    /\ xDfd = FALSE
    /\ xPc = "off"
    /\ xChild = NoChild
    /\ xWaited = 0
    /\ xTemp = "none"
    /\ xAttempts = <<>>
    /\ dArgs = NoArgs
    /\ dPc = "off"
    /\ dDirs = NoDirs
    /\ dResult = NoResult
    /\ xResult = NoResult
    /\ sComponents = <<>>
    /\ sBoundaries = <<>>
    /\ simpleDot = NoText
    /\ simpleCode = NoText
    /\ sPc = "off"

SpecClassify == InitClassify /\ [][ClsNext]_vars

InitCache ==
    /\ description = ""
    /\ hashOrder = <<>>
    /\ components = <<>>
    /\ boundaries = <<>>
    /\ clsPc = "off"
    /\ clsPrev = NoCall
    /\ caches = EmptyCaches
    /\ locks = [s \in Slots |-> NoCaller]
    /\ produced = [s \in Slots |-> <<>>]
    /\ callers = [p \in Callers |-> IdleCaller]
    /\ tComponents = <<>>
    /\ tBoundaries = <<>>
    /\ tDataflows = <<>>
    /\ dotText = NoText
    /\ pyCode = NoText
    /\ toolPc = "off"
    /\ toolName = ""
    /\ tArgs = <<>>
    /\ graphviz = FALSE
    /\ files = <<>>
    /\ savedFiles = <<>>
    /\ warnings = <<>>
    /\ toolResult = NoResult
    /\ xOp = ""
    /\ xCmd = ""
    /\ xDfd = FALSE
    /\ xPc = "off"
    /\ xChild = NoChild
    /\ xWaited = 0
    /\ xTemp = "none"
    /\ xAttempts = <<>>
    /\ dArgs = NoArgs
    /\ dPc = "off"
    /\ dDirs = NoDirs
    /\ dResult = NoResult
    /\ xResult = NoResult
    /\ sComponents = <<>>
    /\ sBoundaries = <<>>
    /\ simpleDot = NoText
    /\ simpleCode = NoText
    /\ sPc = "off"

SpecCache == InitCache /\ [][CacheNext]_vars

InitGen ==
    /\ description = ""
    /\ hashOrder = <<>>
    /\ components = <<>>
    /\ boundaries = <<>>
    /\ clsPc = "off"
    /\ clsPrev = NoCall
    /\ caches = EmptyCaches
    /\ locks = [s \in Slots |-> NoCaller]
    /\ produced = [s \in Slots |-> <<>>]
    /\ callers = << >>
    /\ tComponents \in GenComponentLists
    /\ tBoundaries \in GenBoundaryLists
    /\ tDataflows \in GenFlowLists
    /\ dotText = NoText
    /\ pyCode = NoText
    /\ toolPc = "entities"
    /\ toolName = ""
    /\ tArgs = <<>>
    /\ graphviz = FALSE
    /\ files = <<>>
    /\ savedFiles = <<>>
    /\ warnings = <<>>
    /\ toolResult = NoResult
    /\ xOp = ""
    /\ xCmd = ""
    /\ xDfd = FALSE
    /\ xPc = "off"
    /\ xChild = NoChild
    /\ xWaited = 0
    /\ xTemp = "none"
    /\ xAttempts = <<>>
    /\ dArgs = NoArgs
    /\ dPc = "off"
    /\ dDirs = NoDirs
    /\ dResult = NoResult
    /\ xResult = NoResult
    /\ sComponents = <<>>
    /\ sBoundaries = <<>>
    /\ simpleDot = NoText
    /\ simpleCode = NoText
    /\ sPc = "off"

SpecGen == InitGen /\ [][GenNext]_vars

InitTool ==
    /\ description = ""
    /\ hashOrder = <<>>
    /\ components = <<>>
    /\ boundaries = <<>>
    /\ clsPc = "off"
    /\ clsPrev = NoCall
    /\ caches = EmptyCaches
    /\ locks = [s \in Slots |-> NoCaller]
    /\ produced = [s \in Slots |-> <<>>]
    /\ callers = << >>
    /\ tComponents = <<>>
    /\ tBoundaries = <<>>
    /\ tDataflows = <<>>
    /\ dotText = NoText
    /\ pyCode = NoText
    /\ toolPc = "call"
    /\ \E call \in ToolCalls :
           /\ toolName = call[1]
           /\ tArgs = call[2]
    /\ graphviz \in BOOLEAN
    /\ files = <<>>
    /\ savedFiles = <<>>
    /\ warnings = <<>>
    /\ toolResult = NoResult
    /\ xOp = ""
    /\ xCmd = ""
    /\ xDfd = FALSE
    /\ xPc = "off"
    /\ xChild = NoChild
    /\ xWaited = 0
    /\ xTemp = "none"
    /\ xAttempts = <<>>
    /\ dArgs = NoArgs
    /\ dPc = "off"
    /\ dDirs = NoDirs
    /\ dResult = NoResult
    /\ xResult = NoResult
    /\ sComponents = <<>>
    /\ sBoundaries = <<>>
    /\ simpleDot = NoText
    /\ simpleCode = NoText
    /\ sPc = "off"

SpecTool == InitTool /\ [][ToolNext]_vars

InitSimple ==
    /\ description = ""
    /\ hashOrder = <<>>
    /\ components = <<>>
    /\ boundaries = <<>>
    /\ clsPc = "off"
    /\ clsPrev = NoCall
    /\ caches = EmptyCaches
    /\ locks = [s \in Slots |-> NoCaller]
    /\ produced = [s \in Slots |-> <<>>]
    /\ callers = << >>
    /\ tComponents = <<>>
    /\ tBoundaries = <<>>
    /\ tDataflows = <<>>
    /\ dotText = NoText
    /\ pyCode = NoText
    /\ toolPc = "off"
    /\ toolName = ""
    /\ tArgs = <<>>
    /\ graphviz = FALSE
    /\ files = <<>>
    /\ savedFiles = <<>>
    /\ warnings = <<>>
    /\ toolResult = NoResult
    /\ xOp = ""
    /\ xCmd = ""
    /\ xDfd = FALSE
    /\ xPc = "off"
    /\ xChild = NoChild
    /\ xWaited = 0
    /\ xTemp = "none"
    /\ xAttempts = <<>>
    /\ dArgs = NoArgs
    /\ dPc = "off"
    /\ dDirs = NoDirs
    /\ dResult = NoResult
    /\ xResult = NoResult
    /\ sComponents \in SimpleComponentLists
    /\ sBoundaries \in SimpleBoundaryLists
    /\ simpleDot = NoText
    /\ simpleCode = NoText
    /\ sPc = "inputs"

SpecSimple == InitSimple /\ [][SimpleNext]_vars

SpecPipeline == InitClassify /\ [][PipelineNext]_vars

\* the five pure functions, each on its own inputs
InitGenerators ==
    \E part \in {"classify", "entities", "simple"} :
        /\ description \in (IF part = "classify" THEN Descriptions ELSE {""})
        /\ hashOrder \in (IF part = "classify" THEN Permutation(BoundaryNames) ELSE {<<>>})
        /\ components = <<>>
        /\ boundaries = <<>>
        /\ clsPc = (IF part = "classify" THEN "start" ELSE "off")
        /\ clsPrev = NoCall
        /\ caches = EmptyCaches
        /\ locks = [s \in Slots |-> NoCaller]
        /\ produced = [s \in Slots |-> <<>>]
        /\ callers = << >>
        /\ tComponents \in (IF part = "entities" THEN GenComponentLists ELSE {<<>>})
        /\ tBoundaries \in (IF part = "entities" THEN GenBoundaryLists ELSE {<<>>})
        /\ tDataflows \in (IF part = "entities" THEN GenFlowLists ELSE {<<>>})
        /\ dotText = NoText
        /\ pyCode = NoText
        /\ toolPc = (IF part = "entities" THEN "entities" ELSE "off")
        /\ toolName = ""
        /\ tArgs = <<>>
        /\ graphviz = FALSE
        /\ files = <<>>
        /\ savedFiles = <<>>
        /\ warnings = <<>>
        /\ toolResult = NoResult
        /\ xOp = ""
        /\ xCmd = ""
        /\ xDfd = FALSE
        /\ xPc = "off"
        /\ xChild = NoChild
        /\ xWaited = 0
        /\ xTemp = "none"
        /\ xAttempts = <<>>
        /\ dArgs = NoArgs
        /\ dPc = "off"
        /\ dDirs = NoDirs
        /\ dResult = NoResult
        /\ xResult = NoResult
        /\ sComponents \in (IF part = "simple" THEN SimpleComponentLists ELSE {<<>>})
        /\ sBoundaries \in (IF part = "simple" THEN SimpleBoundaryLists ELSE {<<>>})
        /\ simpleDot = NoText
        /\ simpleCode = NoText
        /\ sPc = (IF part = "simple" THEN "inputs" ELSE "off")

SpecGenerators == InitGenerators /\ [][ClsNext \/ GenNext \/ SimpleNext]_vars

InitDfd ==
    /\ description = ""
    /\ hashOrder = <<>>
    /\ components = <<>>
    /\ boundaries = <<>>
    /\ clsPc = "off"
    /\ clsPrev = NoCall
    /\ caches = EmptyCaches
    /\ locks = [s \in Slots |-> NoCaller]
    /\ produced = [s \in Slots |-> <<>>]
    /\ callers = << >>
    /\ tComponents = <<>>
    /\ tBoundaries = <<>>
    /\ tDataflows = <<>>
    /\ dotText = NoText
    /\ pyCode = NoText
    /\ toolPc = "off"
    /\ toolName = ""
    /\ tArgs = <<>>
    /\ graphviz = FALSE
    /\ files = <<>>
    /\ savedFiles = <<>>
    /\ warnings = <<>>
    /\ toolResult = NoResult
    /\ xOp = ""
    /\ xCmd = ""
    /\ xDfd = FALSE
    /\ xPc = "off"
    /\ xChild = NoChild
    /\ xWaited = 0
    /\ xTemp = "none"
    /\ xAttempts = <<>>
    /\ dArgs \in [components : DfdComponentLists, output_format : DfdFormats,
                   output_dir : DfdOutputDirs]
    /\ dPc = "call"
    /\ dDirs = [NoDirs EXCEPT !.given = IF dArgs.output_dir = "" THEN "none"
                                        ELSE IF Exists(dArgs.output_dir) THEN "exists"
                                        ELSE "missing"]
    /\ dResult = NoResult
    /\ xResult = NoResult
    /\ sComponents = <<>>
    /\ sBoundaries = <<>>
    /\ simpleDot = NoText
    /\ simpleCode = NoText
    /\ sPc = "off"

SpecDfd == InitDfd /\ [][DfdNext]_vars

InitExec ==
    /\ description = ""
    /\ hashOrder = <<>>
    /\ components = <<>>
    /\ boundaries = <<>>
    /\ clsPc = "off"
    /\ clsPrev = NoCall
    /\ caches = EmptyCaches
    /\ locks = [s \in Slots |-> NoCaller]
    /\ produced = [s \in Slots |-> <<>>]
    /\ callers = << >>
    /\ tComponents = <<>>
    /\ tBoundaries = <<>>
    /\ tDataflows = <<>>
    /\ dotText = NoText
    /\ pyCode = NoText
    /\ toolPc = "off"
    /\ toolName = ""
    /\ tArgs = <<>>
    /\ graphviz = FALSE
    /\ files = <<>>
    /\ savedFiles = <<>>
    /\ warnings = <<>>
    /\ toolResult = NoResult
    /\ xOp \in {"execute_pytm_fast", "convert_dot_to_image"}
    /\ xCmd \in (IF xOp = "execute_pytm_fast" THEN {"", "python3"} ELSE {""})
    /\ xDfd \in (IF xOp = "execute_pytm_fast" THEN BOOLEAN ELSE {FALSE})
    /\ xPc = "call"
    /\ xChild = NoChild
    /\ xWaited = 0
    /\ xTemp = "none"
    /\ xAttempts = <<>>
    /\ dArgs = NoArgs
    /\ dPc = "off"
    /\ dDirs = NoDirs
    /\ dResult = NoResult
    /\ xResult = NoResult
    /\ sComponents = <<>>
    /\ sBoundaries = <<>>
    /\ simpleDot = NoText
    /\ simpleCode = NoText
    /\ sPc = "off"

SpecExec == InitExec /\ [][ExecNext]_vars

\* the event loop runs every step of the function that is ready and time passes;
\* the child is another program and owes no progress
FairSpecExec ==
    /\ SpecExec
    /\ WF_vars(ExecNoPython)
    /\ WF_vars(Spawn)
    /\ WF_vars(Tick)
    /\ WF_vars(ExecTimeout)
    /\ WF_vars(ExecCommunicated)
    /\ WF_vars(ConvertCommunicated)

(***************************************************************************)
(* C1: for every description, the empty one included, extract_components   *)
(* returns at least one component of type actor, at least one of type      *)
(* server or process, and a boundary list that contains Internet.          *)
(***************************************************************************)
C1_ActorServerInternet ==
    clsPc = "extracted" =>
        /\ HasType(components, "actor")
        /\ HasType(components, "server") \/ HasType(components, "process")
        /\ "Internet" \in SeqToSet(boundaries)

\* the empty description: nothing matches and both defaults are synthesized
C1_Witness ==
    /\ clsPc = "extracted"
    /\ description = ""
    /\ components = <<Comp("User", "actor", "Internet"), Comp("Application", "server", "DMZ")>>

(***************************************************************************)
(* C6 as stated: on "web application with database and redis cache" the    *)
(* components are Web Frontend (server, Internet), Database (datastore,    *)
(* Internal), Cache (datastore, Internal) and the default actor User       *)
(* (Internet), no default server is added, and the boundary set is exactly *)
(* {Internet, Internal}.                                                   *)
(***************************************************************************)
C6_Original ==
    (clsPc = "extracted" /\ description = EndToEndDescription) =>
        /\ SeqToSet(components) =
             { Comp("Web Frontend", "server", "Internet"),
               Comp("Database", "datastore", "Internal"),
               Comp("Cache", "datastore", "Internal"),
               Comp("User", "actor", "Internet") }
        /\ SeqToSet(boundaries) = {"Internet", "Internal"}

(***************************************************************************)
(* C6 amended: on that description the components are, in this order, Web  *)
(* Frontend (server, Internet), Database (datastore, Internal), Cache      *)
(* (datastore, Internal) and Mobile App (actor, Internet): the rule        *)
(* mobile|ios|android|app matches "app" inside "application", so an actor  *)
(* rule does match and the default actor User is not added; no default     *)
(* server is added; the boundary set is exactly {Internet, Internal}.      *)
(***************************************************************************)
C6_EndToEnd ==
    (clsPc = "extracted" /\ description = EndToEndDescription) =>
        /\ components =
             << Comp("Web Frontend", "server", "Internet"),
                Comp("Database", "datastore", "Internal"),
                Comp("Cache", "datastore", "Internal"),
                Comp("Mobile App", "actor", "Internet") >>
        /\ \A i \in 1..Len(components) : components[i].name \notin {"User", "Application"}
        /\ SeqToSet(boundaries) = {"Internet", "Internal"}
        /\ Len(boundaries) = 2

C6_Witness ==
    /\ clsPc = "extracted"
    /\ description = EndToEndDescription
    /\ Len(components) = 4

(***************************************************************************)
(* C2: for concurrent getOrCreate calls that share one key, under every    *)
(* interleaving, the producer is executed at most once while calls are in  *)
(* progress and exactly once when a call has returned, and every call      *)
(* that has returned holds the value that single execution produced.       *)
(***************************************************************************)
C2_ProducerOnce ==
    /\ \A s \in Slots : Len(produced[s]) <= 1
    /\ \A p \in DOMAIN callers :
         callers[p].pc = "done" =>
             /\ Len(produced[SlotOf(p)]) = 1
             /\ callers[p].result = produced[SlotOf(p)][1]

\* every call has returned, all on one key of one cache, from two descriptions
C2_Witness ==
    /\ callers # << >>
    /\ \A p \in Callers : callers[p].pc = "done"
    /\ \A p, q \in Callers : SlotOf(p) = SlotOf(q)
    /\ \E p, q \in Callers : callers[p].desc # callers[q].desc
    /\ Len(produced[SlotOf(1)]) = 1

(***************************************************************************)
(* C3: once a key is populated its stored value is never replaced or       *)
(* removed, the producer is not invoked for that key again, and every call *)
(* that returns for that key afterwards returns the stored value.          *)
(***************************************************************************)
C3_Persistence ==
    [][\A s \in Slots :
          InCache(caches[s[1]], s[2]) =>
              /\ InCache(caches'[s[1]], s[2])
              /\ caches'[s[1]][s[2]] = caches[s[1]][s[2]]
              /\ produced'[s] = produced[s]
              /\ \A p \in Callers :
                    (SlotOf(p) = s /\ callers[p].pc # "done" /\ callers'[p].pc = "done")
                        => callers'[p].result = caches[s[1]][s[2]]]_vars

\* a call made with another description returned the value stored for the key
C3_Witness ==
    \E p \in DOMAIN callers :
        /\ callers[p].pc = "done"
        /\ callers[p].result.of # callers[p].desc
        /\ caches[callers[p].cache][cache_key(callers[p].desc)] = callers[p].result

(***************************************************************************)
(* C4: in the graph text of generate_advanced_dot every identifier used as *)
(* the source or destination of an edge is the identifier of a node        *)
(* declared in the same text.                                              *)
(***************************************************************************)
C4_NoDanglingEndpoints ==
    dotText # NoText =>
        \A i \in 1..Len(dotText) :
            dotText[i].kind = "edge" =>
                /\ dotText[i].a \in NodeIds(dotText)
                /\ dotText[i].b \in NodeIds(dotText)

(***************************************************************************)
(* C9 as stated: the script declares exactly as many components,           *)
(* boundaries and dataflows as the input contains.                         *)
(***************************************************************************)
C9_Original ==
    pyCode # NoText =>
        /\ CountKind(pyCode, ComponentClasses) = Len(tComponents)
        /\ CountKind(pyCode, {"Boundary"}) = Len(tBoundaries)
        /\ CountKind(pyCode, {"Dataflow"}) = Len(tDataflows)

\* the flows whose two endpoints both name an input component
DeclaredFlows ==
    {i \in 1..Len(tDataflows) :
        /\ \E c \in 1..Len(tComponents) : tComponents[c].name = tDataflows[i].source
        /\ \E c \in 1..Len(tComponents) : tComponents[c].name = tDataflows[i].destination}

(***************************************************************************)
(* C9 amended: the script declares exactly len(components) components and  *)
(* len(boundaries) boundaries; its Dataflow declarations are one per flow  *)
(* whose source and destination both name input components, plus one more *)
(* (the response) for each of those flows that is bidirectional.           *)
(***************************************************************************)
C9_DeclarationCounts ==
    pyCode # NoText =>
        /\ CountKind(pyCode, ComponentClasses) = Len(tComponents)
        /\ CountKind(pyCode, {"Boundary"}) = Len(tBoundaries)
        /\ CountKind(pyCode, {"Dataflow"}) =
               Cardinality(DeclaredFlows)
                   + Cardinality({i \in DeclaredFlows : tDataflows[i].bidirectional})

\* a script for an input with a bidirectional flow and a flow to no component
C9_Witness ==
    /\ pyCode # NoText
    /\ Len(tComponents) = 3
    /\ Len(tBoundaries) = 3
    /\ \E i \in DeclaredFlows : tDataflows[i].bidirectional
    /\ \E i \in 1..Len(tDataflows) : i \notin DeclaredFlows


(***************************************************************************)
(* C7: when a component type, a flow protocol or a flow classification of  *)
(* the arguments is outside its enumeration, or a required field is        *)
(* missing, create_threat_model has returned as soon as it has taken a     *)
(* step, its result is an error text that names the field of one such      *)
(* violation (for an enumeration, through the name of the enumeration      *)
(* class, compared without case) and the rejected value, and no graph      *)
(* text, script text or file exists.                                       *)
(***************************************************************************)
RequiredComponentKeys == {"name", "type", "boundary"}
RequiredBoundaryKeys == {"name", "type", "security_level"}
RequiredFlowKeys == {"source", "destination", "protocol", "data_type", "classification"}

Violation(field, missing, value) == [field |-> field, missing |-> missing, value |-> value]

MissingIn(raws, required) ==
    {Violation(k, TRUE, "") : k \in {k \in required : \E i \in 1..Len(raws) : k \notin raws[i].keys}}

Violations(args) ==
    MissingIn(args.components, RequiredComponentKeys)
    \cup MissingIn(args.boundaries, RequiredBoundaryKeys)
    \cup MissingIn(args.dataflows, RequiredFlowKeys)
    \cup {Violation("type", FALSE, args.components[i].type) :
            i \in {i \in 1..Len(args.components) :
                     /\ "type" \in args.components[i].keys
                     /\ args.components[i].type \notin ComponentType}}
    \cup {Violation("protocol", FALSE, args.dataflows[i].protocol) :
            i \in {i \in 1..Len(args.dataflows) :
                     /\ "protocol" \in args.dataflows[i].keys
                     /\ args.dataflows[i].protocol \notin Protocol}}
    \cup {Violation("classification", FALSE, args.dataflows[i].classification) :
            i \in {i \in 1..Len(args.dataflows) :
                     /\ "classification" \in args.dataflows[i].keys
                     /\ args.dataflows[i].classification \notin DataClassification}}

Names(text, v) ==
    /\ Contains(Lower(text), v.field)
    /\ v.missing \/ Contains(text, "'" \o v.value \o "'")

NothingGenerated == dotText = NoText /\ pyCode = NoText /\ files = <<>> /\ savedFiles = <<>>

C7_BuilderRejects ==
    (toolName = "create_threat_model" /\ toolPc # "call" /\ Violations(tArgs) # {})
        => /\ toolPc = "returned"
           /\ toolResult.kind = "error"
           /\ \E v \in Violations(tArgs) : Names(toolResult.body, v)
           /\ NothingGenerated

C7_Witness ==
    /\ toolPc = "returned"
    /\ toolResult.kind = "error"
    /\ \E v \in Violations(tArgs) : ~v.missing /\ v.field = "classification"
    /\ \A v \in Violations(tArgs) : v.field \in {"classification", "protocol"}
    /\ tArgs.output_format = "diagram"
    /\ tArgs.auto_save

(***************************************************************************)
(* C8: when a trust boundary of the arguments has a security_level outside *)
(* 0..10, create_threat_model returns an error and neither the graph text  *)
(* nor the script text is generated.                                       *)
(***************************************************************************)
MinLevel == 0
MaxLevel == 10

LevelOutOfRange(args) ==
    \E i \in 1..Len(args.boundaries) :
        /\ "security_level" \in args.boundaries[i].keys
        /\ args.boundaries[i].security_level \notin MinLevel..MaxLevel

C8_LevelRejected ==
    (toolName = "create_threat_model" /\ toolPc # "call" /\ LevelOutOfRange(tArgs))
        => /\ toolPc = "returned"
           /\ toolResult.kind = "error"
           /\ dotText = NoText
           /\ pyCode = NoText

(***************************************************************************)
(* C5: for a non-empty list of dataflows the Highest Classification of the *)
(* diagram summary is the classification of one of the flows and no flow   *)
(* has a classification above it in the order PUBLIC < INTERNAL <          *)
(* CONFIDENTIAL < RESTRICTED < TOP_SECRET.                                 *)
(***************************************************************************)
Rank(cls) ==
    CASE cls = "PUBLIC" -> 1
      [] cls = "INTERNAL" -> 2
      [] cls = "CONFIDENTIAL" -> 3
      [] cls = "RESTRICTED" -> 4
      [] cls = "TOP_SECRET" -> 5

C5_HighestClassification ==
    (toolPc = "returned" /\ toolResult.kind = "diagram_image" /\ Len(tDataflows) > 0)
        => /\ \E i \in 1..Len(tDataflows) :
                  tDataflows[i].classification = toolResult.body.highest
           /\ \A i \in 1..Len(tDataflows) :
                  Rank(tDataflows[i].classification) <= Rank(toolResult.body.highest)


(***************************************************************************)
(* C10: a function that runs a child process never awaits it for more than *)
(* the timeout: when the time is up it kills the child and returns.        *)
(***************************************************************************)
C10_BoundedWait == xPc = "awaiting" => xWaited <= Timeout

\* C10 as a liveness property of the fair specification: every call returns
C10_EventuallyReturns == <>(xPc = "returned")

(***************************************************************************)
(* C11: a create_threat_model call with output_format diagram and valid    *)
(* arguments that has returned holds the rendered image or, when Graphviz  *)
(* is unavailable or no image was produced, the DOT text: never an error.  *)
(***************************************************************************)
C11_DegradesToDot ==
    (/\ toolName = "create_threat_model"
     /\ toolPc = "returned"
     /\ tArgs.output_format = "diagram"
     /\ BuildError(tArgs) = NoError)
        => /\ toolResult.kind \in {"diagram_image", "diagram_dot"}
           /\ ~graphviz => toolResult.kind = "diagram_dot"

(***************************************************************************)
(* C13: when a write of an artifact failed during a create_threat_model    *)
(* call with auto_save, the call still returns its primary result, every   *)
(* later artifact was still attempted, and the returned result reports     *)
(* each failed artifact.                                                   *)
(***************************************************************************)
PrimaryKinds == {"diagram_image", "diagram_dot", "analysis"}

\* the artifacts the text of a result speaks of: its Auto-Saved Files list
ReportedFiles(result) == {result.body.saved_files[i] : i \in 1..Len(result.body.saved_files)}

FailedFiles == {warnings[i] : i \in 1..Len(warnings)}

C13_WriteFailureReported ==
    (toolPc = "returned" /\ toolResult.kind \in PrimaryKinds /\ tArgs.auto_save)
        => FailedFiles \subseteq ReportedFiles(toolResult)

(***************************************************************************)
(* C14: a call of extract_components on a description that was classified  *)
(* before returns the same component list and the same boundary list, in   *)
(* the same order, as the earlier call.                                    *)
(***************************************************************************)
C14_SameResultAgain ==
    (clsPc = "extracted" /\ clsPrev # NoCall)
        => /\ components = clsPrev.components
           /\ boundaries = clsPrev.boundaries

(***************************************************************************)
(* C15: after the table pass the default actor User (Internet) is appended *)
(* iff no rule of the actor category matched, and the default server       *)
(* Application (DMZ) is appended, with DMZ among the boundaries, iff no    *)
(* rule of the server or process category matched; "database" yields       *)
(* Database, User and Application with boundaries Internet, Internal, DMZ. *)
(***************************************************************************)
MatchedRules(desc) == {k \in 1..Len(PATTERNS) : re_search(PATTERNS[k].alts, Lower(desc))}

CategoryMatched(desc, types) == \E k \in MatchedRules(desc) : PATTERNS[k].type \in types

MatchedBoundaries(desc) == {PATTERNS[k].boundary : k \in MatchedRules(desc)}

C15_CompletionDefaults ==
    clsPc = "extracted" =>
        LET n == Cardinality(MatchedRules(description))
            a == IF CategoryMatched(description, {"actor"}) THEN 0 ELSE 1
            sv == IF CategoryMatched(description, {"server", "process"}) THEN 0 ELSE 1
        IN  /\ Len(components) = n + a + sv
            /\ a = 1 => components[n + 1] = Comp("User", "actor", "Internet")
            /\ sv = 1 => components[n + a + 1] = Comp("Application", "server", "DMZ")
            /\ SeqToSet(boundaries) =
                   {"Internet"} \cup MatchedBoundaries(description)
                       \cup (IF sv = 1 THEN {"DMZ"} ELSE {})
            /\ description = "database" =>
                   /\ components = <<Comp("Database", "datastore", "Internal"),
                                     Comp("User", "actor", "Internet"),
                                     Comp("Application", "server", "DMZ")>>
                   /\ SeqToSet(boundaries) = {"Internet", "Internal", "DMZ"}

C15_Witness ==
    /\ clsPc = "extracted"
    /\ description = "database"
    /\ Len(components) = 3

(***************************************************************************)
(* C19: the matched components come in rule-table order whatever the order *)
(* of the words in the text, so the component list is a function of the    *)
(* set of rules that match, and no name is emitted twice.                  *)
(***************************************************************************)
RECURSIVE RulesInTableOrder(_, _)
RulesInTableOrder(matched, k) ==
    IF k > Len(PATTERNS) THEN <<>>
    ELSE (IF k \in matched
          THEN <<Comp(PATTERNS[k].name, PATTERNS[k].type, PATTERNS[k].boundary)>> ELSE <<>>)
             \o RulesInTableOrder(matched, k + 1)

C19_TableOrder ==
    clsPc = "extracted" =>
        LET expected == RulesInTableOrder(MatchedRules(description), 1) IN
        /\ Len(components) >= Len(expected)
        /\ SubSeq(components, 1, Len(expected)) = expected
        /\ \A i, j \in 1..Len(components) : components[i].name = components[j].name => i = j

\* "database web": the words come in the opposite order of their rules
C19_Witness ==
    /\ clsPc = "extracted"
    /\ description = "database web"
    /\ components[1].name = "Web Frontend"
    /\ components[2].name = "Database"


(***************************************************************************)
(* C16: generate_simple_dot emits the request edge actor[i] -> server[j]   *)
(* exactly for the index pairs with i = 0 or j = 0, in loop order: first   *)
(* actor[0] to every server, then every later actor to server[0], which is *)
(* |actors| + |servers| - 1 edges when both lists are non-empty and none   *)
(* otherwise; and exactly one response edge, server[0] -> actor[0], is     *)
(* emitted when both lists are non-empty.                                  *)
(***************************************************************************)
EdgesLabelled(dot, label) ==
    SelectSeq(dot, LAMBDA l : l.kind = "edge" /\ l.label = label)

C16_PrimaryEdges ==
    simpleDot # NoText =>
        LET actors == SelectSeq(sComponents, LAMBDA c : c.type = "actor")
            servers == SelectSeq(sComponents, LAMBDA c : c.type = "server" \/ c.type = "process")
            requests == EdgesLabelled(simpleDot, "HTTPS")
            responses == EdgesLabelled(simpleDot, "Response")
            both == Len(actors) > 0 /\ Len(servers) > 0
        IN /\ Len(requests) = (IF both THEN Len(actors) + Len(servers) - 1 ELSE 0)
           /\ \A k \in 1..Len(requests) :
                  LET i == IF k <= Len(servers) THEN 0 ELSE k - Len(servers)
                      j == IF k <= Len(servers) THEN k - 1 ELSE 0
                  IN /\ requests[k].a = Slug(actors[i + 1].name)
                     /\ requests[k].b = Slug(servers[j + 1].name)
           /\ Len(responses) = (IF both THEN 1 ELSE 0)
           /\ both => /\ responses[1].a = Slug(servers[1].name)
                      /\ responses[1].b = Slug(actors[1].name)
                      /\ responses[1].style = "dashed"

C16_Witness ==
    /\ simpleDot # NoText
    /\ Len(SelectSeq(sComponents, LAMBDA c : c.type = "actor")) >= 2
    /\ \E i, j \in 1..Len(sComponents) :
           /\ i < j
           /\ sComponents[i].type \in {"server", "process"}
           /\ sComponents[j].type \in {"server", "process"}
           /\ sComponents[i].name # sComponents[j].name

(***************************************************************************)
(* C17: generate_simple_dot emits for every datastore exactly one Query    *)
(* edge and for every external exactly one API edge, in list order, each   *)
(* with server[0] as its source; no other server is the source of such an  *)
(* edge, and with no server there is no such edge.                         *)
(***************************************************************************)
C17_StoreAndExternalEdges ==
    simpleDot # NoText =>
        LET servers == SelectSeq(sComponents, LAMBDA c : c.type = "server" \/ c.type = "process")
            stores == SelectSeq(sComponents, LAMBDA c : c.type = "datastore")
            externals == SelectSeq(sComponents, LAMBDA c : c.type = "external")
            queries == EdgesLabelled(simpleDot, "Query")
            apis == EdgesLabelled(simpleDot, "API")
        IN /\ Len(queries) = (IF Len(servers) > 0 THEN Len(stores) ELSE 0)
           /\ Len(apis) = (IF Len(servers) > 0 THEN Len(externals) ELSE 0)
           /\ \A k \in 1..Len(queries) :
                  /\ queries[k].a = Slug(servers[1].name)
                  /\ queries[k].b = Slug(stores[k].name)
           /\ \A k \in 1..Len(apis) :
                  /\ apis[k].a = Slug(servers[1].name)
                  /\ apis[k].b = Slug(externals[k].name)
           /\ \A k \in 1..Len(simpleDot) :
                  (/\ simpleDot[k].kind = "edge"
                   /\ simpleDot[k].b \in {Slug(c.name) : c \in SeqToSet(stores) \cup SeqToSet(externals)})
                      => simpleDot[k].a = Slug(servers[1].name)

C17_Witness ==
    /\ simpleDot # NoText
    /\ \E i, j \in 1..Len(sComponents) :
           /\ i < j
           /\ sComponents[i].type \in {"server", "process"}
           /\ sComponents[j].type \in {"server", "process"}
           /\ sComponents[i].name # sComponents[j].name
    /\ \E c \in SeqToSet(sComponents) : c.type = "datastore"
    /\ \E c \in SeqToSet(sComponents) : c.type = "external"


(***************************************************************************)
(* C18: generate_advanced_dot emits the edges in flow order: one forward   *)
(* edge per flow, from its source to its destination, labelled with its    *)
(* data_type and solid when the flow carries an encryption annotation,     *)
(* dashed when it carries none; directly after it one dotted edge back,    *)
(* labelled Response, exactly when the flow is bidirectional.  The edges   *)
(* number len(dataflows) plus the number of bidirectional flows.           *)
(***************************************************************************)
Bidirectional(flows, n) == Cardinality({k \in 1..n : flows[k].bidirectional})

C18_ExplicitEdges ==
    dotText # NoText =>
        LET edges == SelectSeq(dotText, LAMBDA l : l.kind = "edge")
            n == Len(tDataflows)
        IN /\ Len(edges) = n + Bidirectional(tDataflows, n)
           /\ \A k \in 1..n :
                  LET flow == tDataflows[k]
                      at == k + Bidirectional(tDataflows, k - 1)
                      annotated == flow.encryption # None /\ flow.encryption # ""
                  IN /\ edges[at].a = Slug(flow.source)
                     /\ edges[at].b = Slug(flow.destination)
                     /\ edges[at].label = flow.data_type
                     /\ edges[at].style = (IF annotated THEN "" ELSE "dashed")
                     /\ flow.bidirectional =>
                            /\ edges[at + 1].a = Slug(flow.destination)
                            /\ edges[at + 1].b = Slug(flow.source)
                            /\ edges[at + 1].label = "Response"
                            /\ edges[at + 1].style = "dotted"

C18_Witness ==
    /\ dotText # NoText
    /\ Len(tDataflows) >= 2
    /\ tDataflows[1].bidirectional
    /\ tDataflows[1].encryption \notin {None, ""}
    /\ ~tDataflows[2].bidirectional
    /\ tDataflows[2].encryption = None

(***************************************************************************)
(* C20: in the script of generate_advanced_pytm_code the flow at input     *)
(* index i (counted from 0) is declared as flow_i exactly when its source  *)
(* and its destination are both names of input components, and is left    *)
(* out otherwise; the declarations stand in input order; and a declared    *)
(* flow is directly followed by one declaration flow_i_response, marked    *)
(* isResponse, exactly when the flow is bidirectional.                     *)
(***************************************************************************)
RECURSIVE ExpectedFlowVars(_, _, _)
ExpectedFlowVars(flows, names, k) ==
    IF k > Len(flows) THEN <<>>
    ELSE (IF flows[k].source \in names /\ flows[k].destination \in names
          THEN <<"flow_" \o ToString(k - 1)>>
                   \o (IF flows[k].bidirectional
                       THEN <<"flow_" \o ToString(k - 1) \o "_response">> ELSE <<>>)
          ELSE <<>>)
             \o ExpectedFlowVars(flows, names, k + 1)

C20_FlowDeclarations ==
    pyCode # NoText =>
        LET declared == SelectSeq(pyCode, LAMBDA s : s.kind = "Dataflow")
            names == {tComponents[i].name : i \in 1..Len(tComponents)}
            marked == {pyCode[i].var : i \in {j \in 1..Len(pyCode) :
                          pyCode[j].kind = "set" /\ pyCode[j].a = "isResponse"}}
        IN /\ [i \in 1..Len(declared) |-> declared[i].var]
                  = ExpectedFlowVars(tDataflows, names, 1)
           /\ \A k \in 1..Len(tDataflows) :
                  LET flow == tDataflows[k]
                      resolved == flow.source \in names /\ flow.destination \in names
                      forward == "flow_" \o ToString(k - 1)
                  IN /\ forward \notin marked
                     /\ (forward \o "_response") \in marked <=> (resolved /\ flow.bidirectional)
                     /\ \A i \in 1..Len(declared) :
                            /\ declared[i].var = forward
                                   => /\ declared[i].a = Slug(flow.source)
                                      /\ declared[i].b = Slug(flow.destination)
                            /\ declared[i].var = forward \o "_response"
                                   => /\ declared[i].a = Slug(flow.destination)
                                      /\ declared[i].b = Slug(flow.source)
           /\ ~\E i \in 1..Len(pyCode) : pyCode[i].kind = "raise"

C20_Witness ==
    /\ pyCode # NoText
    /\ Len(tDataflows) >= 2
    /\ tDataflows[1].destination \notin {tComponents[i].name : i \in 1..Len(tComponents)}
    /\ tDataflows[2].source \in {tComponents[i].name : i \in 1..Len(tComponents)}
    /\ tDataflows[2].destination \in {tComponents[i].name : i \in 1..Len(tComponents)}
    /\ tDataflows[2].bidirectional

(***************************************************************************)
(* C12: on well-typed input none of extract_components,                    *)
(* generate_simple_dot, generate_advanced_dot, generate_pytm_code and      *)
(* generate_advanced_pytm_code raises; each returns its output: the        *)
(* classifier a non-empty component list and boundary list, the diagram    *)
(* generators a graph text closed by its brace, the code generators a      *)
(* script ending in the tm.process() call.  This covers a description no   *)
(* pattern matches, an empty dataflow list and a component whose boundary  *)
(* is none of the boundaries supplied.                                     *)
(***************************************************************************)
ReturnedText(text, last) ==
    /\ Len(text) > 0
    /\ text[Len(text)].kind = last
    /\ \A i \in 1..Len(text) : text[i].kind # "raise"

C12_GeneratorsReturn ==
    /\ clsPc = "extracted" => Len(components) > 0 /\ Len(boundaries) > 0
    /\ dotText # NoText => ReturnedText(dotText, "close")
    /\ pyCode # NoText => ReturnedText(pyCode, "main")
    /\ simpleDot # NoText => ReturnedText(simpleDot, "close")
    /\ simpleCode # NoText => ReturnedText(simpleCode, "main")

C12_Witness ==
    /\ dotText # NoText
    /\ pyCode # NoText
    /\ tDataflows = <<>>
    /\ \E i \in 1..Len(tComponents) :
           tComponents[i].boundary \notin {tBoundaries[j].name : j \in 1..Len(tBoundaries)}


(***************************************************************************)
(* C21: both diagram generators emit one cluster per supplied boundary,    *)
(* numbered 0, 1, 2, ... in the order of emission.  generate_simple_dot    *)
(* puts Internet, DMZ, Internal first, in that order, and the other        *)
(* boundaries after them in input order; generate_advanced_dot puts the    *)
(* boundaries in ascending security_level, equal levels in input order.    *)
(***************************************************************************)
ClustersOf(dot) == SelectSeq(dot, LAMBDA l : l.kind = "subgraph")

NumberedFromZero(clusters) ==
    \A i \in 1..Len(clusters) : clusters[i].a = ToString(i - 1)

FixedRank(name) ==
    IF name = "Internet" THEN 0 ELSE IF name = "DMZ" THEN 1 ELSE IF name = "Internal" THEN 2 ELSE 3

PositionOf(seq, name) == CHOOSE i \in 1..Len(seq) : seq[i] = name

PositionOfName(seq, name) == CHOOSE i \in 1..Len(seq) : seq[i].name = name

C21_ClusterOrder ==
    /\ simpleDot # NoText =>
           LET clusters == ClustersOf(simpleDot) IN
           /\ Len(clusters) = Len(sBoundaries)
           /\ {clusters[i].label : i \in 1..Len(clusters)} = SeqToSet(sBoundaries)
           /\ NumberedFromZero(clusters)
           /\ \A p, q \in 1..Len(clusters) :
                  p < q =>
                      \/ FixedRank(clusters[p].label) < FixedRank(clusters[q].label)
                      \/ /\ FixedRank(clusters[p].label) = 3
                         /\ FixedRank(clusters[q].label) = 3
                         /\ PositionOf(sBoundaries, clusters[p].label)
                                < PositionOf(sBoundaries, clusters[q].label)
    /\ dotText # NoText =>
           LET clusters == ClustersOf(dotText)
               level(c) == tBoundaries[PositionOfName(tBoundaries, c.label)].security_level
           IN
           /\ Len(clusters) = Len(tBoundaries)
           /\ {clusters[i].label : i \in 1..Len(clusters)}
                  = {tBoundaries[i].name : i \in 1..Len(tBoundaries)}
           /\ NumberedFromZero(clusters)
           /\ \A p, q \in 1..Len(clusters) :
                  p < q =>
                      \/ level(clusters[p]) < level(clusters[q])
                      \/ /\ level(clusters[p]) = level(clusters[q])
                         /\ PositionOfName(tBoundaries, clusters[p].label)
                                < PositionOfName(tBoundaries, clusters[q].label)

C21_Witness ==
    /\ simpleDot # NoText
    /\ Len(sBoundaries) = 4
    /\ FixedRank(sBoundaries[1]) = 3
    /\ FixedRank(sBoundaries[2]) = 2
    /\ FixedRank(sBoundaries[3]) = 3
    /\ FixedRank(sBoundaries[4]) = 0


(***************************************************************************)
(* C22: in the script of generate_advanced_pytm_code the data object of    *)
(* every data_type whose label contains 'pii' or 'personal data' is marked *)
(* isPII, and the data object of every data_type whose label contains      *)
(* 'password', 'token' or 'key' is marked isCredentials, whatever the case *)
(* of the label and also when the keyword stands inside a longer phrase.   *)
(***************************************************************************)
PiiKeywords == {"pii", "personal data"}
CredentialKeywords == {"password", "token", "key"}

Flagged(code, var, flag) ==
    \E i \in 1..Len(code) : code[i].kind = "set" /\ code[i].var = var /\ code[i].a = flag

C22_KeywordFlags ==
    pyCode # NoText =>
        \A k \in 1..Len(tDataflows) :
            LET label == tDataflows[k].data_type
                var == Slug(label) \o "_data"
            IN /\ (\E w \in PiiKeywords : Contains(Lower(label), w))
                      => Flagged(pyCode, var, "isPII")
               /\ (\E w \in CredentialKeywords : Contains(Lower(label), w))
                      => Flagged(pyCode, var, "isCredentials")


(***************************************************************************)
(* C23: the script of generate_advanced_pytm_code holds exactly one Data   *)
(* declaration per distinct data_type of the input flows, in the order in  *)
(* which the data_types first occur, each with the classification of the   *)
(* first flow of that data_type; every declared flow refers to the data    *)
(* object of its data_type; and every Data declaration stands before       *)
(* every flow declaration.                                                 *)
(***************************************************************************)
FirstOccurrences(flows) ==
    {k \in 1..Len(flows) : \A j \in 1..(k - 1) : flows[j].data_type # flows[k].data_type}

NthOf(S, n) == CHOOSE k \in S : Cardinality({j \in S : j < k}) = n - 1

PositionsOfKind(code, kind) == {i \in 1..Len(code) : code[i].kind = kind}

C23_DataObjects ==
    pyCode # NoText =>
        LET firsts == FirstOccurrences(tDataflows)
            datas == PositionsOfKind(pyCode, "Data")
            names == {tComponents[i].name : i \in 1..Len(tComponents)}
        IN /\ Cardinality(datas) = Cardinality(firsts)
           /\ \A n \in 1..Cardinality(datas) :
                  LET at == NthOf(datas, n)
                      flow == tDataflows[NthOf(firsts, n)]
                  IN /\ pyCode[at].a = flow.data_type
                     /\ pyCode[at + 1].kind = "set"
                     /\ pyCode[at + 1].var = pyCode[at].var
                     /\ pyCode[at + 1].a = "classification"
                     /\ pyCode[at + 1].b = flow.classification
           /\ \A k \in 1..Len(tDataflows) :
                  (tDataflows[k].source \in names /\ tDataflows[k].destination \in names)
                      => \E i \in 1..Len(pyCode), d \in datas :
                             /\ pyCode[d].a = tDataflows[k].data_type
                             /\ pyCode[i].kind = "set"
                             /\ pyCode[i].var = "flow_" \o ToString(k - 1)
                             /\ pyCode[i].a = "data"
                             /\ pyCode[i].b = pyCode[d].var
           /\ \A d \in datas, f \in PositionsOfKind(pyCode, "Dataflow") : d < f

C23_Witness ==
    /\ pyCode # NoText
    /\ Len(tDataflows) = 3
    /\ tDataflows[1].data_type = tDataflows[3].data_type
    /\ tDataflows[1].classification # tDataflows[3].classification
    /\ tDataflows[2].data_type # tDataflows[1].data_type
    /\ \A k \in 1..3 :
           /\ tDataflows[k].source \in {tComponents[i].name : i \in 1..Len(tComponents)}
           /\ tDataflows[k].destination \in {tComponents[i].name : i \in 1..Len(tComponents)}


(***************************************************************************)
(* C24: in both diagram generators the shape and the fill of a node follow *)
(* from the category of its component alone: actor-like ellipse and blue,  *)
(* server- or process-like box and green, datastore-like cylinder and      *)
(* orange, external service diamond or house and red, any other category   *)
(* box and gray.                                                           *)
(***************************************************************************)
Blue == "#2196f3"
Green == "#4caf50"
Orange == "#ff9800"
Red == "#f44336"
Gray == "#607d8b"

\* the shapes and the fill the claim allows for a component type
StyleOfCategory(type) ==
    IF type \in {"actor", "user", "admin"} THEN [shapes |-> {"ellipse"}, fill |-> Blue]
    ELSE IF type \in {"server", "process", "microservice", "api_gateway", "container", "lambda"}
         THEN [shapes |-> {"box"}, fill |-> Green]
    ELSE IF type \in {"datastore", "database", "cache", "file_storage", "queue"}
         THEN [shapes |-> {"cylinder"}, fill |-> Orange]
    ELSE IF type = "external" THEN [shapes |-> {"diamond", "house"}, fill |-> Red]
    ELSE [shapes |-> {"box"}, fill |-> Gray]

C24_NodeStyling ==
    /\ simpleDot # NoText =>
           \A i \in 1..Len(simpleDot) :
               simpleDot[i].kind = "node" =>
                   \A c \in SeqToSet(sComponents) :
                       c.name = simpleDot[i].label =>
                           /\ simpleDot[i].style \in StyleOfCategory(c.type).shapes
                           /\ simpleDot[i].b = StyleOfCategory(c.type).fill
    /\ dotText # NoText =>
           \A i \in 1..Len(dotText) :
               dotText[i].kind = "node" =>
                   \A c \in SeqToSet(tComponents) :
                       c.name = dotText[i].label =>
                           /\ dotText[i].style[1] \in StyleOfCategory(c.type).shapes
                           /\ dotText[i].b = StyleOfCategory(c.type).fill


(***************************************************************************)
(* C25: for every description the boundary of every component returned by *)
(* extract_components is in the returned boundary list, and the returned   *)
(* components have pairwise different names: a default is never added next *)
(* to a matched component of the same name.                                *)
(***************************************************************************)
C25_ClassifierIntegrity ==
    clsPc = "extracted" =>
        /\ \A i \in 1..Len(components) :
               \E j \in 1..Len(boundaries) : boundaries[j] = components[i].boundary
        /\ \A i, j \in 1..Len(components) :
               components[i].name = components[j].name => i = j

C25_Witness ==
    /\ clsPc = "extracted"
    /\ Len(components) = 3
    /\ components[1].boundary = "Internal"
    /\ components[2].name = "User"
    /\ components[3].name = "Application"


(***************************************************************************)
(* C26: in the script generate_pytm_code makes of the classifier's result, *)
(* every variable assigned to inBoundary is assigned by an earlier         *)
(* Boundary statement, every inBoundary assignment stands directly after   *)
(* the constructor statement of its component, and both endpoint variables *)
(* of every Dataflow are assigned by an earlier constructor statement.     *)
(***************************************************************************)
Constructors == {"Actor", "Server", "Datastore", "Process", "ExternalEntity"}

C26_DeclaredBeforeUse ==
    (clsPc = "extracted" /\ simpleCode # NoText) =>
        \A i \in 1..Len(simpleCode) :
            /\ (simpleCode[i].kind = "set" /\ simpleCode[i].a = "inBoundary") =>
                   /\ \E j \in 1..(i - 1) :
                          /\ simpleCode[j].kind = "Boundary"
                          /\ simpleCode[j].var = simpleCode[i].b
                   /\ i > 1
                   /\ simpleCode[i - 1].kind \in Constructors
                   /\ simpleCode[i - 1].var = simpleCode[i].var
            /\ simpleCode[i].kind = "Dataflow" =>
                   \A e \in 1..2 :
                       \E j \in 1..(i - 1) :
                           /\ simpleCode[j].kind \in Constructors
                           /\ simpleCode[j].var = simpleCode[i].a[e]

C26_Witness ==
    /\ clsPc = "extracted"
    /\ simpleCode # NoText
    /\ \E i \in 1..Len(components) : components[i].type = "process"
    /\ \E i \in 1..Len(components) : components[i].name = "User"
    /\ \E i \in 1..Len(simpleCode) : simpleCode[i].kind = "Dataflow"


(***************************************************************************)
(* C27: a call of execute_pytm_fast that has returned holds a success      *)
(* result or an error result: success, with the child's output, exactly    *)
(* when the child exited with code 0 before the timeout; an error          *)
(* otherwise.  A call that timed out has killed the child and holds an     *)
(* error; a call without an interpreter command holds an error, has no     *)
(* temporary directory and has spawned no child.                           *)
(***************************************************************************)
C27_OneOutcome ==
    (xOp = "execute_pytm_fast" /\ xPc = "returned") =>
        /\ xResult.kind \in {"success", "error"}
        /\ xResult.kind = "success" <=> (xChild.state = "exited" /\ xChild.rc = 0)
        /\ xChild = Killed => xResult.kind = "error"
        /\ xCmd = "" => (xResult.kind = "error" /\ xTemp = "none" /\ xChild = NoChild)

(***************************************************************************)
(* C28: whenever execute_pytm_fast or convert_dot_to_image has returned    *)
(* after creating its temporary directory, whether with a result or with   *)
(* an exception, the cleanup has run: it made at least one and at most 3   *)
(* removal attempts, no attempt followed a successful one, the directory   *)
(* is gone exactly when the last attempt succeeded, and what the call      *)
(* returns is what the child's outcome alone determines.                   *)
(***************************************************************************)
\* the result of a call, from everything except the cleanup
ResultWithoutCleanup ==
    IF xChild = NoChild THEN Result("raise", "OSError")
    ELSE IF xChild = Killed THEN Result("error", "PyTM execution timed out. Try a simpler model.")
    ELSE IF xOp = "execute_pytm_fast"
         THEN (IF xChild.rc = 0 THEN Result("success", EnhancedOutput(xChild.out, xDfd))
               ELSE Result("error", "stderr"))
         ELSE (IF xChild.rc = 0 /\ xChild.out # "" THEN Result("image", xChild.out)
               ELSE Result("none", None))

C28_CleanupBeforeReturn ==
    (xPc = "returned" /\ ~(xOp = "execute_pytm_fast" /\ xCmd = "")) =>
        /\ xTemp \in {"removed", "present"}
        /\ Len(xAttempts) \in 1..3
        /\ \A n \in 1..(Len(xAttempts) - 1) : ~xAttempts[n]
        /\ ~xAttempts[Len(xAttempts)] => Len(xAttempts) = 3
        /\ xTemp = "removed" <=> xAttempts[Len(xAttempts)]
        /\ xResult = ResultWithoutCleanup

C28_Witness ==
    /\ xPc = "returned"
    /\ xChild = Killed
    /\ xAttempts = <<FALSE, FALSE, TRUE>>


TextResults ==
    {"unknown", "error", "code", "invalid", "diagram_dot", "diagram_image", "analysis", "report"}

C30_NeverRaises ==
    toolPc = "returned" =>
        /\ toolResult.kind \in TextResults
        /\ toolName \notin {"create_threat_model", "analyze_security_threats",
                            "generate_security_controls", "validate_architecture"}
               => toolResult = Result("unknown", "Unknown tool: " \o toolName)
        /\ (\/ toolName = "create_threat_model" /\ BuildError(tArgs) # NoError
            \/ toolName \in StaticTools /\ StaticError(toolName, tArgs) # NoError)
               => toolResult.kind = "error"
        /\ toolResult.kind = "error" => SubSeq(toolResult.body, 1, 7) = "Error: "

C30_Witness ==
    /\ toolPc = "returned"
    /\ toolName = "analyze_security_threats"
    /\ toolResult.kind = "error"

====
